---- MODULE Spec2Model ----
(***************************************************************************)
(* Model of the expression-to-SQL compiler of ibis-heavyai                 *)
(* (ibis_heavyai/compiler.py, identical up to naming to                    *)
(* ibis_omniscidb/compiler.py).                                            *)
(*                                                                         *)
(* A Python str is modelled as a sequence of tokens (words, punctuation,   *)
(* and separate whitespace tokens; a line break is the token "\n");        *)
(* str concatenation / str.format is sequence concatenation, and Flat      *)
(* gives the real character string.  A StringIO buffer is the sequence of  *)
(* everything written to it.  None / an optional value is the empty        *)
(* sequence, a present value v is <<v>>.                                   *)
(***************************************************************************)
EXTENDS Integers, Sequences, FiniteSets, TLC

VARIABLES
    pc,                     \* "idle": no call in progress; "done": a call returned or raised
    call,                   \* the operation last called
    limit,                  \* Select.limit: <<>> (None) or <<[n, offset]>>
    group_by,               \* Select.group_by: sequence of named expressions
    having,                 \* Select.having: sequence of predicates
    expr,                   \* the expression handed to get_result / compile / translate
    non_equijoin_supported, \* the class attribute _non_equijoin_supported of the dialect's formatter
    join_tables,            \* TableSetFormatter.join_tables after the call
    join_types,             \* TableSetFormatter.join_types after the call
    join_predicates,        \* TableSetFormatter.join_predicates after the call
    translated,             \* the expressions handed to _translate during the call, in order
    rewritten,              \* the tree the registry rendered in translate
    rows,                   \* the boolean column a reduction is evaluated over
    ret,                    \* what the call returned or raised
    arg,                    \* the arguments of the call in progress that have no variable of their own
    con,                    \* the calls made on the driver connection (Backend.con) during the call
    db_name,                \* Backend.db_name: <<>> (None) or <<name>>
    connection,             \* the driver connection Backend.con refers to: [closed, dbname]
    remote_backend_compiler, \* the calls made on OmniSciDBUDF.remote_backend_compiler during the call
    session,                \* the translations finished so far in this process: [call, input, output]
    heap,                   \* the formatter objects alive in the process, by object id
    threads                 \* per thread: the compile call in progress and the point it has reached

compilerVars == <<pc, call, limit, group_by, having, expr, non_equijoin_supported,
                  join_tables, join_types, join_predicates, translated, rewritten, rows, ret>>

backendVars == <<arg, con, db_name, connection, remote_backend_compiler>>

processVars == <<session, heap, threads>>

vars == <<compilerVars, backendVars, processVars>>

(***************************************************************************)
(* Bounds of the model.                                                    *)
(***************************************************************************)
MaxN == 10
MaxOffset == 5
MaxGroupBy == 2
MaxHaving == 2
MaxTables == 3
MaxDepth == 2
MaxRows == 3

(***************************************************************************)
(* Strings.                                                                *)
(***************************************************************************)
RECURSIVE Flat(_)
Flat(text) == IF text = <<>> THEN "" ELSE Head(text) \o Flat(Tail(text))

RECURSIVE Spaces(_)
Spaces(k) == IF k = 0 THEN "" ELSE " " \o Spaces(k - 1)

NL == "\n"

\* sep.join(parts), parts a sequence of strings (token sequences)
RECURSIVE Join(_, _)
Join(sep, parts) ==
    IF parts = <<>> THEN <<>>
    ELSE IF Len(parts) = 1 THEN parts[1]
    ELSE parts[1] \o sep \o Join(sep, Tail(parts))

\* All sequences over S of length 0..k
SeqsUpTo(S, k) == UNION {[1..m -> S] : m \in 0..k}

RECURSIVE ConcatAll(_)
ConcatAll(ss) == IF ss = <<>> THEN <<>> ELSE Head(ss) \o ConcatAll(Tail(ss))

(***************************************************************************)
(* Results of a call.                                                      *)
(***************************************************************************)
RetNone == [kind |-> "None", text |-> <<>>, exc |-> ""]
RetStr(t) == [kind |-> "str", text |-> t, exc |-> ""]
Raise(e) == [kind |-> "raise", text |-> <<>>, exc |-> e]
RetExpr(t) == [kind |-> "expr", text |-> <<>>, exc |-> "", tree |-> t]
RetValue(v) == [kind |-> "value", text |-> <<>>, exc |-> "", value |-> v]

(***************************************************************************)
(* Expressions: [op, args, name]; name is the expression's output name     *)
(* ("" when it has none).                                                  *)
(***************************************************************************)
Node(op, args) == [op |-> op, args |-> args, name |-> ""]
Col(c) == [op |-> "Column", args |-> <<>>, name |-> c]
Named(e, n) == [e EXCEPT !.name = n]
Lit(v) == [op |-> "Literal", args |-> <<>>, name |-> "", value |-> v]

BinaryOps == {"Equals", "Greater", "Divide", "FloorDivide"}

InfixSym(op) ==
    CASE op = "Equals" -> "="
      [] op = "Greater" -> ">"
      [] op = "Divide" -> "/"
      [] OTHER -> "?"

FuncName(op) ==
    CASE op = "Floor" -> "floor"
      [] op = "Sum" -> "sum"
      [] op = "Min" -> "min"
      [] op = "Max" -> "max"
      [] OTHER -> "?"

Registry == {"Column", "Literal", "Equals", "Greater", "Divide", "Floor", "Sum", "Min", "Max",
             "Count", "Not"}

\* The registry's rendering of a node from its rendered children.
RECURSIVE Format(_)
Format(e) ==
    LET Arg(i) == IF e.args[i].op \in BinaryOps
                  THEN <<"(">> \o Format(e.args[i]) \o <<")">>
                  ELSE Format(e.args[i])
    IN  CASE e.op = "Column" -> <<e.name>>
          [] e.op = "Literal" -> <<e.value>>
          [] e.op = "Count" -> <<"count", "(", "*", ")">>
          [] e.op \in {"Equals", "Greater", "Divide"} ->
                Arg(1) \o <<" ", InfixSym(e.op), " ">> \o Arg(2)
          [] e.op \in {"Floor", "Sum", "Min", "Max"} ->
                <<FuncName(e.op), "(">> \o Format(e.args[1]) \o <<")">>
          [] e.op = "Not" -> <<"NOT", " ">> \o Arg(1)
          [] OTHER -> <<"?">>

get_name(e) == e.name

(***************************************************************************)
(* The rewrite rules registered on HeavyDBExprTranslator.                  *)
(***************************************************************************)
\* operations._all, _any, _not_all, _not_any
_all(e) == Node("Min", <<e.args[1]>>)
_any(e) == Node("Max", <<e.args[1]>>)
_not_all(e) == Node("Not", <<Node("Min", <<e.args[1]>>)>>)
_not_any(e) == Node("Not", <<Node("Max", <<e.args[1]>>)>>)

\* Faulty variant of _floor_divide: right.div(left)
_floor_divide_swapped(e) ==
    LET left == e.args[1]
        right == e.args[2]
    IN  Node("Floor", <<Node("Divide", <<right, left>>)>>)

\* Faulty variant of _floor_divide: left.floordiv(right).floor()
_floor_divide_floordiv(e) ==
    LET left == e.args[1]
        right == e.args[2]
    IN  Node("Floor", <<Node("FloorDivide", <<left, right>>)>>)

_floor_divide(e) ==
    LET left == e.args[1]
        right == e.args[2]
    IN  Node("Floor", <<Node("Divide", <<left, right>>)>>)

heavydb_rewrite_all(e) == _all(e)

\* Faulty variant of heavydb_rewrite_any: it calls _all
heavydb_rewrite_any_as_all(e) == _all(e)

heavydb_rewrite_any(e) == _any(e)

heavydb_rewrite_not_all(e) == _not_all(e)

heavydb_rewrite_not_any(e) == _not_any(e)

\* The operator kinds with a registered rewrite
_rewrites == {"FloorDivide", "All", "Any", "NotAll", "NotAny"}

\* self._rewrites[type(op)](expr)
ApplyRewrite(e) ==
    CASE e.op = "FloorDivide" -> _floor_divide(e)
      [] e.op = "All" -> heavydb_rewrite_all(e)
      [] e.op = "Any" -> heavydb_rewrite_any(e)
      [] e.op = "NotAll" -> heavydb_rewrite_not_all(e)
      [] e.op = "NotAny" -> heavydb_rewrite_not_any(e)
      [] OTHER -> e

\* The interpreter's recursion limit, scaled to the model
RecursionLimit == 12

Bottom == Node("RecursionError", <<>>)

\* The tree the registry renders: ExprTranslator.translate rewrites a node whose
\* kind has a rule once, then renders it, translating its children the same way.
RECURSIVE RewritePass(_, _)
RewritePass(e, fuel) ==
    IF fuel = 0 THEN Bottom
    ELSE LET e1 == IF e.op \in _rewrites THEN ApplyRewrite(e) ELSE e
         IN  [e1 EXCEPT !.args = [i \in 1..Len(e1.args) |->
                                     RewritePass(e1.args[i], fuel - 1)]]

RECURSIVE OpsOf(_)
OpsOf(e) == {e.op} \cup UNION {OpsOf(e.args[i]) : i \in 1..Len(e.args)}

\* ExprTranslator.translate: [ret, rewritten]
translate(e) ==
    LET t == RewritePass(e, RecursionLimit)
    IN  IF "RecursionError" \in OpsOf(t)
        THEN [ret |-> Raise("RecursionError"), rewritten |-> t]
        ELSE IF ~(OpsOf(t) \subseteq Registry)
        THEN [ret |-> Raise("OperationNotDefinedError"), rewritten |-> t]
        ELSE [ret |-> RetStr(Format(t)), rewritten |-> t]

_translate(e) == translate(e).ret.text

(***************************************************************************)
(* The value of a rendered reduction over a boolean column, as the         *)
(* database computes it: "TRUE", "FALSE" or "NULL".                        *)
(***************************************************************************)
Not3(v) == CASE v = "TRUE" -> "FALSE" [] v = "FALSE" -> "TRUE" [] OTHER -> "NULL"

RECURSIVE Eval(_, _)
Eval(e, col) ==
    CASE e.op = "Min" /\ e.args[1].op = "Column" ->
            IF col = <<>> THEN "NULL"
            ELSE IF \E i \in 1..Len(col) : ~col[i] THEN "FALSE" ELSE "TRUE"
      [] e.op = "Max" /\ e.args[1].op = "Column" ->
            IF col = <<>> THEN "NULL"
            ELSE IF \E i \in 1..Len(col) : col[i] THEN "TRUE" ELSE "FALSE"
      [] e.op = "Not" -> Not3(Eval(e.args[1], col))
      [] OTHER -> "NULL"

(***************************************************************************)
(* HeavyDBSelect.format_limit                                              *)
(***************************************************************************)
\* Faulty variant of format_limit: the offset is written whenever it is not None
format_limit_no_zero_check(lim) ==
    IF lim = <<>> THEN RetNone
    ELSE LET n == lim[1].n
             offset == lim[1].offset
             buf1 == <<"LIMIT", " ", ToString(n)>>
             buf2 == IF offset # <<>>
                     THEN buf1 \o <<",", " ", ToString(offset[1])>>
                     ELSE buf1
         IN  RetStr(buf2)

format_limit(lim) ==
    IF lim = <<>> THEN RetNone
    ELSE LET n == lim[1].n
             offset == lim[1].offset
             buf1 == <<"LIMIT", " ", ToString(n)>>
             buf2 == IF offset # <<>> /\ offset[1] # 0
                     THEN buf1 \o <<",", " ", ToString(offset[1])>>
                     ELSE buf1
         IN  RetStr(buf2)

(***************************************************************************)
(* HeavyDBSelect.format_group_by                                           *)
(***************************************************************************)
\* Faulty variant of format_group_by: the group-by expressions are translated again
format_group_by_translated(gb, hv) ==
    IF gb = <<>> THEN RetNone
    ELSE LET columns == [i \in 1..Len(gb) |-> _translate(gb[i])]
             clause == <<"GROUP BY", " ">> \o Join(<<",", " ">>, columns)
             trans_exprs == [i \in 1..Len(hv) |-> _translate(hv[i])]
             lines == IF hv # <<>>
                      THEN <<clause, <<"HAVING", " ">> \o Join(<<" ", "AND", " ">>, trans_exprs)>>
                      ELSE <<clause>>
         IN  RetStr(Join(<<NL>>, lines))

\* Faulty variant of format_group_by: the HAVING line is written before the GROUP BY line
format_group_by_having_first(gb, hv) ==
    IF gb = <<>> THEN RetNone
    ELSE LET columns == [i \in 1..Len(gb) |-> <<get_name(gb[i])>>]
             clause == <<"GROUP BY", " ">> \o Join(<<",", " ">>, columns)
             trans_exprs == [i \in 1..Len(hv) |-> _translate(hv[i])]
             lines == IF hv # <<>>
                      THEN <<<<"HAVING", " ">> \o Join(<<" ", "AND", " ">>, trans_exprs), clause>>
                      ELSE <<clause>>
         IN  RetStr(Join(<<NL>>, lines))

format_group_by(gb, hv) ==
    IF gb = <<>> THEN RetNone
    ELSE LET columns == [i \in 1..Len(gb) |-> <<get_name(gb[i])>>]
             clause == <<"GROUP BY", " ">> \o Join(<<",", " ">>, columns)
             trans_exprs == [i \in 1..Len(hv) |-> _translate(hv[i])]
             lines == IF hv # <<>>
                      THEN <<clause, <<"HAVING", " ">> \o Join(<<" ", "AND", " ">>, trans_exprs)>>
                      ELSE <<clause>>
         IN  RetStr(Join(<<NL>>, lines))


(***************************************************************************)
(* Table expressions: a table [op |-> "Table", name], a join               *)
(* [op |-> <join kind>, left, right, predicates], or a union               *)
(* [op |-> "Union", left, right].                                          *)
(***************************************************************************)
Table(n) == [op |-> "Table", name |-> n]
JoinNode(kind, l, r, preds) == [op |-> kind, left |-> l, right |-> r, predicates |-> preds]
UnionNode(l, r) == [op |-> "Union", left |-> l, right |-> r]

\* The subclasses of ops.Join the model knows: the four with a name, and two without.
JoinOps == {"InnerJoin", "LeftJoin", "LeftSemiJoin", "CrossJoin", "RightJoin", "LeftAntiJoin"}
IsJoin(e) == e.op \in JoinOps

(***************************************************************************)
(* HeavyDBTableSetFormatter                                                *)
(***************************************************************************)
\* Faulty variant of _join_names: a fifth entry
_join_names_with_right ==
    ("InnerJoin" :> "JOIN") @@ ("LeftJoin" :> "LEFT JOIN") @@
    ("LeftSemiJoin" :> "JOIN") @@ ("CrossJoin" :> "JOIN") @@
    ("RightJoin" :> "RIGHT JOIN")

_join_names ==
    ("InnerJoin" :> "JOIN") @@ ("LeftJoin" :> "LEFT JOIN") @@
    ("LeftSemiJoin" :> "JOIN") @@ ("CrossJoin" :> "JOIN")

\* TableSetFormatter.indent, the default of the formatter's constructor
self_indent == 2

_quote_identifier(name) == name

\* TableSetFormatter._format_table for a physical table: its quoted name
_format_table(e) == <<_quote_identifier(e.name)>>

\* util.indent: the prefix before every line of the text
RECURSIVE IndentRest(_, _)
IndentRest(text, k) ==
    IF text = <<>> THEN <<>>
    ELSE IF Head(text) = NL /\ Tail(text) # <<>>
         THEN <<NL, Spaces(k)>> \o IndentRest(Tail(text), k)
         ELSE <<Head(text)>> \o IndentRest(Tail(text), k)

util_indent(text, k) == IF text = <<>> THEN <<>> ELSE <<Spaces(k)>> \o IndentRest(text, k)

\* The exception _validate_join_predicates raises ("" when it returns).
\* Faulty variant of _validate_join_predicates: "or" for "and"
RECURSIVE _validate_join_predicates_or(_, _)
_validate_join_predicates_or(predicates, supported) ==
    IF predicates = <<>> THEN ""
    ELSE IF Head(predicates).op # "Equals" \/ ~supported
         THEN "TranslationError"
         ELSE _validate_join_predicates_or(Tail(predicates), supported)

RECURSIVE _validate_join_predicates(_, _)
_validate_join_predicates(predicates, supported) ==
    IF predicates = <<>> THEN ""
    ELSE IF Head(predicates).op # "Equals" /\ ~supported
         THEN "TranslationError"
         ELSE _validate_join_predicates(Tail(predicates), supported)

\* TableSetFormatter._get_join_type: self._join_names[type(op)]; <<>> is the KeyError
_get_join_type(op) == IF op \in DOMAIN _join_names THEN <<_join_names[op]>> ELSE <<>>

\* The formatter's accumulator lists, and the exception that ended the walk.
NewFormatter == [raised |-> "", join_tables |-> <<>>, join_types |-> <<>>,
                 join_predicates |-> <<>>]

\* TableSetFormatter._walk_join_tree of the host framework, which get_result calls.
RECURSIVE _walk_join_tree(_, _, _)
_walk_join_tree(op, self, supported) ==
    IF IsJoin(op.left) /\ IsJoin(op.right)
    THEN [self EXCEPT !.raised = "NotImplementedError"]
    ELSE IF _validate_join_predicates(op.predicates, supported) # ""
    THEN [self EXCEPT !.raised = _validate_join_predicates(op.predicates, supported)]
    ELSE IF _get_join_type(op.op) = <<>>
    THEN [self EXCEPT !.raised = "KeyError"]
    ELSE LET jname == _get_join_type(op.op)[1]
             walked ==
                 IF IsJoin(op.left)
                 THEN LET s1 == _walk_join_tree(op.left, self, supported)
                      IN  IF s1.raised # "" THEN s1
                          ELSE [s1 EXCEPT !.join_tables = @ \o <<_format_table(op.right)>>]
                 ELSE IF IsJoin(op.right)
                 THEN [self EXCEPT !.raised = "NotImplementedError"]
                 ELSE [self EXCEPT !.join_tables =
                          @ \o <<_format_table(op.left), _format_table(op.right)>>]
         IN  IF walked.raised # "" THEN walked
             ELSE [walked EXCEPT !.join_types = @ \o <<jname>>,
                                 !.join_predicates = @ \o <<op.predicates>>]

Min2(a, b) == IF a < b THEN a ELSE b

\* zip(self.join_types, self.join_tables[1:], self.join_predicates)
\* Faulty variant of ZipTriples: join_tables without the [1:]
ZipTriples_no_slice(self) ==
    LET k == Min2(Len(self.join_types),
                  Min2(Len(self.join_tables), Len(self.join_predicates)))
    IN  [i \in 1..k |-> [jtype |-> self.join_types[i],
                         table |-> self.join_tables[i],
                         preds |-> self.join_predicates[i]]]

ZipTriples(self) ==
    LET k == Min2(Len(self.join_types),
                  Min2(Len(self.join_tables) - 1, Len(self.join_predicates)))
    IN  [i \in 1..k |-> [jtype |-> self.join_types[i],
                         table |-> self.join_tables[i + 1],
                         preds |-> self.join_predicates[i]]]

\* The loop over preds: each translated, and parenthesized when npreds > 1
\* Faulty variant of FmtPreds: npreds > 0 for npreds > 1
FmtPreds_always_parens(preds) ==
    [i \in 1..Len(preds) |->
        IF Len(preds) > 0
        THEN <<"(">> \o _translate(preds[i]) \o <<")">>
        ELSE _translate(preds[i])]

FmtPreds(preds) ==
    [i \in 1..Len(preds) |->
        IF Len(preds) > 1
        THEN <<"(">> \o _translate(preds[i]) \o <<")">>
        ELSE _translate(preds[i])]

\* What is written after the join's line: the ON clause
OnClause(fmt_preds) ==
    IF Len(fmt_preds) # 0
    THEN LET conj == <<" ", "AND", NL, Spaces(3)>>
         IN  <<NL>> \o util_indent(<<"ON", " ">> \o Join(conj, fmt_preds), self_indent * 2)
    ELSE util_indent(<<"ON", " ", "TRUE">>, self_indent * 2)

\* One iteration of the loop of get_result
JoinClause(t) ==
    <<NL>> \o util_indent(<<t.jtype, " ">> \o t.table, self_indent)
           \o OnClause(FmtPreds(t.preds))

\* Faulty variant of walk: the accumulator lists belong to the class and are
\* shared by every formatter, so they start as what the calls before left
walk_shared_lists(self, e, supported) ==
    IF IsJoin(e)
    THEN _walk_join_tree(e, [self EXCEPT !.join_tables = join_tables \o @,
                                         !.join_types = join_types \o @,
                                         !.join_predicates = join_predicates \o @],
                         supported)
    ELSE [self EXCEPT !.join_tables = join_tables \o @ \o <<_format_table(e)>>,
                      !.join_types = join_types \o @,
                      !.join_predicates = join_predicates \o @]

\* Faulty variant of walk: the single table is appended on both sides of the branch
walk_table_twice(self, e, supported) ==
    IF IsJoin(e)
    THEN _walk_join_tree(e, self, supported)
    ELSE [self EXCEPT !.join_tables = @ \o <<_format_table(e), _format_table(e)>>]

\* The first statement of get_result: the accumulators of self are filled
walk(self, e, supported) ==
    IF IsJoin(e)
    THEN _walk_join_tree(e, self, supported)
    ELSE [self EXCEPT !.join_tables = @ \o <<_format_table(e)>>]

\* The rest of get_result: the text is written from the accumulators of self.
\* [ret, self (the formatter afterwards), translated]
written(self) ==
    IF self.raised # ""
    THEN [ret |-> Raise(self.raised), self |-> self, translated |-> <<>>]
    ELSE IF self.join_tables = <<>>
    THEN [ret |-> Raise("IndexError"), self |-> self, translated |-> <<>>]
    ELSE LET triples == ZipTriples(self)
             buf == self.join_tables[1]
                    \o ConcatAll([i \in 1..Len(triples) |-> JoinClause(triples[i])])
         IN  [ret |-> RetStr(buf), self |-> self,
              translated |-> ConcatAll([i \in 1..Len(triples) |-> triples[i].preds])]

\* get_result on the formatter the host framework has just constructed
get_result(e, supported) == written(walk(NewFormatter, e, supported))

(***************************************************************************)
(* HeavyDBCompiler: the facade.  [ret, translated]                         *)
(***************************************************************************)
\* Select.compile for a table expression: the select list and the table set
compile_select(e, supported) ==
    LET r == get_result(e, supported)
    IN  IF r.ret.kind = "raise" THEN [ret |-> r.ret, translated |-> r.translated]
        ELSE [ret |-> RetStr(<<"SELECT", " ", "*", NL, "FROM", " ">> \o r.ret.text),
              translated |-> r.translated]

\* Faulty variant of _make_union, what the host framework's own _make_union does:
\* both operands are compiled
_make_union_compiles(e, supported) ==
    LET l == compile_select(e.left, supported)
        r == compile_select(e.right, supported)
    IN  [ret |-> RetStr(l.ret.text \o <<NL, "UNION", NL>> \o r.ret.text),
         translated |-> <<e.left, e.right>> \o l.translated \o r.translated]

\* _make_union(union_class, expr, context); the context carries the dialect's settings
_make_union(e, supported) ==
    [ret |-> Raise("UnsupportedOperationError"), translated |-> <<>>]

\* Compiler.to_ast and the compile of the statement it built
compile(e, supported) ==
    IF e.op = "Union" THEN _make_union(e, supported) ELSE compile_select(e, supported)

(***************************************************************************)
(* Inputs.                                                                 *)
(***************************************************************************)
Limits == {<<>>} \cup
          {<<[n |-> n, offset |-> o]>> :
              n \in 0..MaxN, o \in {<<>>} \cup {<<k>> : k \in 0..MaxOffset}}

GroupExprs == {Col("a"), Col("b"),
               Named(Node("Divide", <<Col("a"), Col("b")>>), "x")}

HavingPreds == {Node("Greater", <<Node("Sum", <<Col("a")>>), Col("b")>>),
                Node("Equals", <<Node("Max", <<Col("b")>>), Col("a")>>)}

\* Join predicates: an equality and a non-equality
EqPred == Node("Equals", <<Col("a"), Col("b")>>)
GtPred == Node("Greater", <<Col("a"), Col("b")>>)
PredLists == {<<>>, <<EqPred>>, <<GtPred>>, <<EqPred, GtPred>>, <<GtPred, EqPred>>}

TableName(i) == "t" \o ToString(i)

\* The left-deep join trees of exactly k tables t1 .. tk; a join without a name
\* is a RightJoin, or a LeftAntiJoin at the root
RECURSIVE LeftDeep(_)
LeftDeep(k) ==
    IF k = 1 THEN {Table(TableName(1))}
    ELSE {JoinNode(kind, l, Table(TableName(k)), preds) :
             kind \in JoinOps \ {"LeftAntiJoin"}, l \in LeftDeep(k - 1), preds \in PredLists}

AntiJoins ==
    {JoinNode("LeftAntiJoin", l, Table(TableName(MaxTables)), preds) :
        l \in LeftDeep(MaxTables - 1), preds \in {<<>>, <<EqPred>>}}

\* Join trees that are not left-deep: a join on the right side, joins on both sides
OtherShapes ==
    LET j12 == JoinNode("InnerJoin", Table("t1"), Table("t2"), <<EqPred>>)
        j34 == JoinNode("InnerJoin", Table("t3"), Table("t4"), <<EqPred>>)
    IN  {JoinNode("InnerJoin", Table("t3"), j12, <<EqPred>>),
         JoinNode("LeftJoin", j12, j34, <<>>)}

TableExprs == UNION {LeftDeep(k) : k \in 1..MaxTables} \cup AntiJoins \cup OtherShapes

UnionOperands == {Table("t1"), Table("t2"),
                  JoinNode("InnerJoin", Table("t1"), Table("t2"), <<EqPred>>)}

Statements == {UnionNode(l, r) : l \in UnionOperands, r \in UnionOperands}
              \cup LeftDeep(1) \cup LeftDeep(2)

\* Numeric expressions of depth at most d: floor divisions nested on one side
NumLeaves == {Col("a"), Col("b")}

RECURSIVE NumExprs(_)
NumExprs(d) ==
    IF d = 0 THEN NumLeaves
    ELSE NumLeaves
         \cup {Node("FloorDivide", <<l, r>>) : l \in NumExprs(d - 1), r \in NumLeaves}
         \cup {Node("FloorDivide", <<l, r>>) : l \in NumLeaves, r \in NumExprs(d - 1)}

BoolExprs(d) ==
    {Col("p")} \cup {Node("Greater", <<l, r>>) : l \in NumExprs(d - 1), r \in NumLeaves}

Reductions == {"All", "Any", "NotAll", "NotAny"}

ValueExprs ==
    NumExprs(MaxDepth) \cup
    {Node(red, <<b>>) : red \in Reductions, b \in BoolExprs(MaxDepth)}

Columns == SeqsUpTo(BOOLEAN, MaxRows)

(***************************************************************************)
(* The state machine.                                                      *)
(***************************************************************************)
NoExpr == Col("")

NoArg == [op |-> ""]

Init ==
    /\ pc = "idle"
    /\ call = ""
    /\ limit = <<>>
    /\ group_by = <<>>
    /\ having = <<>>
    /\ expr = NoExpr
    /\ non_equijoin_supported \in BOOLEAN
    /\ join_tables = <<>>
    /\ join_types = <<>>
    /\ join_predicates = <<>>
    /\ translated = <<>>
    /\ rewritten = NoExpr
    /\ rows = <<>>
    /\ ret = RetNone
    /\ arg = NoArg
    /\ con = <<>>
    /\ remote_backend_compiler = <<>>
    /\ db_name = <<>>
    /\ connection = <<>>
    /\ session = <<>>
    /\ heap = <<>>
    /\ threads = <<>>

CallFormatLimit ==
    /\ pc = "idle"
    /\ \E lim \in Limits :
          /\ limit' = lim
          /\ ret' = format_limit(lim)
    /\ pc' = "done"
    /\ call' = "format_limit"
    /\ UNCHANGED <<rewritten, group_by, having, expr, non_equijoin_supported, join_tables,
                   join_types, join_predicates, translated, rows>>
    /\ UNCHANGED <<backendVars, processVars>>

CallFormatGroupBy ==
    /\ pc = "idle"
    /\ \E gb \in SeqsUpTo(GroupExprs, MaxGroupBy), hv \in SeqsUpTo(HavingPreds, MaxHaving) :
          /\ group_by' = gb
          /\ having' = hv
          /\ ret' = format_group_by(gb, hv)
          /\ translated' = IF gb = <<>> THEN <<>> ELSE hv
    /\ pc' = "done"
    /\ call' = "format_group_by"
    /\ UNCHANGED <<rewritten, limit, expr, non_equijoin_supported, join_tables,
                   join_types, join_predicates, rows>>
    /\ UNCHANGED <<backendVars, processVars>>

CallGetResult ==
    /\ pc = "idle"
    /\ \E e \in TableExprs :
          LET r == get_result(e, non_equijoin_supported)
          IN  /\ expr' = e
              /\ join_tables' = r.self.join_tables
              /\ join_types' = r.self.join_types
              /\ join_predicates' = r.self.join_predicates
              /\ translated' = r.translated
              /\ ret' = r.ret
    /\ pc' = "done"
    /\ call' = "get_result"
    /\ UNCHANGED <<non_equijoin_supported, rewritten, limit, group_by, having, rows>>
    /\ UNCHANGED <<backendVars, processVars>>

CallCompile ==
    /\ pc = "idle"
    /\ \E e \in Statements :
          LET r == compile(e, non_equijoin_supported)
          IN  /\ expr' = e
              /\ translated' = r.translated
              /\ ret' = r.ret
    /\ pc' = "done"
    /\ call' = "compile"
    /\ UNCHANGED <<rewritten, limit, group_by, having, non_equijoin_supported, join_tables,
                   join_types, join_predicates, rows>>
    /\ UNCHANGED <<backendVars, processVars>>

\* One registered rule applied to an expression of its kind
CallRewriteRule ==
    /\ pc = "idle"
    /\ \E e \in ValueExprs :
          /\ e.op \in _rewrites
          /\ expr' = e
          /\ ret' = RetExpr(ApplyRewrite(e))
    /\ pc' = "done"
    /\ call' = "rewrite"
    /\ UNCHANGED <<rewritten, limit, group_by, having, non_equijoin_supported, join_tables,
                   join_types, join_predicates, translated, rows>>
    /\ UNCHANGED <<backendVars, processVars>>

CallTranslate ==
    /\ pc = "idle"
    /\ \E e \in ValueExprs :
          LET r == translate(e)
          IN  /\ expr' = e
              /\ ret' = r.ret
              /\ rewritten' = r.rewritten
    /\ pc' = "done"
    /\ call' = "translate"
    /\ UNCHANGED <<limit, group_by, having, non_equijoin_supported, join_tables,
                   join_types, join_predicates, translated, rows>>
    /\ UNCHANGED <<backendVars, processVars>>

\* A reduction over the boolean column p is rewritten, and the database
\* evaluates what was rendered over the rows of p.
CallExecuteReduction ==
    /\ pc = "idle"
    /\ \E red \in Reductions, col \in Columns :
          LET e == Node(red, <<Col("p")>>)
          IN  /\ expr' = e
              /\ rows' = col
              /\ rewritten' = translate(e).rewritten
              /\ ret' = RetValue(Eval(translate(e).rewritten, col))
    /\ pc' = "done"
    /\ call' = "execute"
    /\ UNCHANGED <<limit, group_by, having, non_equijoin_supported, join_tables,
                   join_types, join_predicates, translated>>
    /\ UNCHANGED <<backendVars, processVars>>

(***************************************************************************)
(* HeavyDBQueryContext, HeavyDBExprTranslator.name and the compile of a    *)
(* whole select statement (HeavyDBSelect).                                 *)
(***************************************************************************)
\* HeavyDBQueryContext.always_alias
always_alias == FALSE

\* Names that identifiers.quote_identifier wraps in quotes: reserved words
\* and names with whitespace
QuotedNames == {"count", "my col"}

quote_identifier(n) == IF n \in QuotedNames THEN <<"\"", n, "\"">> ELSE <<n>>

\* operations._name_expr(formatted_expr, quoted_name)
_name_expr(formatted_expr, quoted_name) ==
    formatted_expr \o <<" ", "AS", " ">> \o quote_identifier(quoted_name)

\* HeavyDBExprTranslator.name(translated, name, force)
translator_name(translated_, n, force) == _name_expr(translated_, n)

\* ExprTranslator.get_result: the translated expression, named when it has
\* a name of its own that is not the name of the column it reads
translate_named(e) ==
    IF e.name # "" /\ e.op # "Column" THEN translator_name(_translate(e), e.name, TRUE) ELSE _translate(e)

\* One SELECT statement: its clauses as the select builder gathered them
Select(select_set, table_set, where, gb, hv, lim) ==
    [select_set |-> select_set, table_set |-> table_set, where |-> where,
     group_by |-> gb, having |-> hv, limit |-> lim]

\* Select.format_select_set
format_select_set(sel) ==
    IF sel.select_set = <<>> THEN RetStr(<<"SELECT", " ", "*">>)
    ELSE RetStr(<<"SELECT", " ">>
                \o Join(<<",", " ">>,
                        [i \in 1..Len(sel.select_set) |-> translate_named(sel.select_set[i])]))

\* The FROM fragment, given what the table-set formatter's get_result gave
from_fragment(r) == IF r.kind = "raise" THEN r ELSE RetStr(<<"FROM", " ">> \o r.text)

\* Select.format_table_set
format_table_set(sel, supported) == from_fragment(get_result(sel.table_set, supported).ret)

\* Select.format_where
format_where(sel) ==
    IF sel.where = <<>> THEN RetNone
    ELSE RetStr(<<"WHERE", " ">> \o Join(<<" ", "AND", NL, Spaces(6)>>, FmtPreds(sel.where)))

\* '\n'.join(filter(None, fragments)); an exception raised for a fragment ends the compile
JoinFragments(frags) ==
    LET raised == {i \in DOMAIN frags : frags[i].kind = "raise"}
        present == SelectSeq(frags, LAMBDA f : f.kind = "str")
    IN  IF raised # {}
        THEN frags[CHOOSE i \in raised : \A j \in raised : i <= j]
        ELSE RetStr(Join(<<NL>>, [i \in 1..Len(present) |-> present[i].text]))

\* Select.compile
Select_compile(sel, supported) ==
    JoinFragments(<<format_select_set(sel),
                    format_table_set(sel, supported),
                    format_where(sel),
                    format_group_by(sel.group_by, sel.having),
                    format_limit(sel.limit)>>)

(***************************************************************************)
(* Inputs of name and of the compile of a select.                          *)
(***************************************************************************)
CountStar == Named(Node("Count", <<>>), "count")

AliasNames == {"x", "count", "my col"}

\* Statements: the tables, filters, groupings and limits combine freely
SelectStatements ==
    {Select(ss, t, w, g.gb, g.hv, lim) :
        ss \in {<<>>, <<Col("b"), CountStar>>},
        t \in {Table("t"),
               JoinNode("InnerJoin", Table("t"), Table("t2"), <<EqPred>>),
               JoinNode("LeftAntiJoin", Table("t"), Table("t2"), <<EqPred>>)},
        w \in {<<>>, <<Node("Greater", <<Col("a"), Lit("5")>>)>>,
               <<Node("Greater", <<Col("a"), Lit("5")>>), EqPred>>},
        g \in {[gb |-> <<>>, hv |-> <<>>],
               [gb |-> <<>>, hv |-> <<Node("Greater", <<Node("Sum", <<Col("a")>>), Col("b")>>)>>],
               [gb |-> <<Col("b")>>, hv |-> <<>>],
               [gb |-> <<Col("b")>>,
                hv |-> <<Node("Greater", <<Node("Sum", <<Col("a")>>), Col("b")>>)>>]},
        lim \in {<<>>, <<[n |-> 10, offset |-> <<>>]>>, <<[n |-> 10, offset |-> <<5>>]>>}}

CallName ==
    /\ pc = "idle"
    /\ \E e \in NumExprs(1), n \in AliasNames, force \in BOOLEAN :
          /\ expr' = e
          /\ arg' = [op |-> "name", translated |-> _translate(e), name |-> n, force |-> force]
          /\ ret' = RetStr(translator_name(_translate(e), n, force))
    /\ pc' = "done"
    /\ call' = "name"
    /\ UNCHANGED <<rewritten, limit, group_by, having, non_equijoin_supported, join_tables,
                   join_types, join_predicates, translated, rows>>
    /\ UNCHANGED <<con, db_name, connection, processVars, remote_backend_compiler>>

CallSelectCompile ==
    /\ pc = "idle"
    /\ \E sel \in SelectStatements :
          /\ arg' = [op |-> "Select.compile", select_set |-> sel.select_set, where |-> sel.where]
          /\ expr' = sel.table_set
          /\ group_by' = sel.group_by
          /\ having' = sel.having
          /\ limit' = sel.limit
          /\ ret' = Select_compile(sel, non_equijoin_supported)
    /\ pc' = "done"
    /\ call' = "Select.compile"
    /\ UNCHANGED <<rewritten, non_equijoin_supported, join_tables, join_types,
                   join_predicates, translated, rows>>
    /\ UNCHANGED <<con, db_name, connection, processVars, remote_backend_compiler>>

\* The caller drops the finished objects; the next call starts from fresh ones.
Return ==
    /\ pc = "done"
    /\ pc' = "idle"
    /\ call' = ""
    /\ limit' = <<>>
    /\ group_by' = <<>>
    /\ having' = <<>>
    /\ expr' = NoExpr
    /\ UNCHANGED non_equijoin_supported
    /\ join_tables' = <<>>
    /\ join_types' = <<>>
    /\ join_predicates' = <<>>
    /\ translated' = <<>>
    /\ rewritten' = NoExpr
    /\ rows' = <<>>
    /\ ret' = RetNone
    /\ arg' = NoArg
    /\ con' = <<>>
    /\ remote_backend_compiler' = <<>>
    /\ UNCHANGED <<db_name, connection, processVars>>

Next ==
    \/ CallFormatLimit
    \/ CallFormatGroupBy
    \/ CallGetResult
    \/ CallCompile
    \/ CallRewriteRule
    \/ CallTranslate
    \/ CallExecuteReduction
    \/ CallName
    \/ CallSelectCompile
    \/ Return

Spec == Init /\ [][Next]_vars

(***************************************************************************)
(* dtypes.py and OmniSciDBDataType (client.py).                            *)
(*                                                                         *)
(* A host data type is [form, type, params, nullable].  The mapping table  *)
(* holds both instances (dt.int64, dt.Decimal(18, 9)) and classes          *)
(* (dt.Boolean, dt.Null); two host types are equal when they are the same  *)
(* class, or instances of the same class with equal parameters and equal   *)
(* nullability.  An exception is Raise(type) with its args as text.        *)
(***************************************************************************)
Inst(t, params) == [form |-> "instance", type |-> t, params |-> params, nullable |-> TRUE]
Class(t) == [form |-> "class", type |-> t, params |-> <<>>, nullable |-> TRUE]

RaiseWith(e, args) == [kind |-> "raise", text |-> args, exc |-> e]

\* The items of the dict literal sql_to_ibis_dtypes, in the order written
sql_items ==
    << <<"BIGINT", Inst("Int64", <<>>)>>,
       <<"BOOL", Class("Boolean")>>,
       <<"DATE", Inst("Date", <<>>)>>,
       <<"DECIMAL", Inst("Decimal", <<18, 9>>)>>,
       <<"DOUBLE", Inst("Float64", <<>>)>>,
       <<"FLOAT", Inst("Float32", <<>>)>>,
       <<"INT", Inst("Int32", <<>>)>>,
       <<"LINESTRING", Inst("LineString", <<>>)>>,
       <<"MULTIPOLYGON", Inst("MultiPolygon", <<>>)>>,
       <<"NULL", Class("Null")>>,
       <<"NUMERIC", Inst("Decimal", <<18, 9>>)>>,
       <<"POINT", Inst("Point", <<>>)>>,
       <<"POLYGON", Inst("Polygon", <<>>)>>,
       <<"SMALLINT", Inst("Int16", <<>>)>>,
       <<"STR", Inst("String", <<>>)>>,
       <<"TIME", Inst("Time", <<>>)>>,
       <<"TIMESTAMP", Inst("Timestamp", <<>>)>>,
       <<"TINYINT", Inst("Int8", <<>>)>> >>

\* A dict built from items: a later item replaces the value of an equal key
DictOf(items) ==
    [k \in {items[i][1] : i \in DOMAIN items} |->
        LET last == CHOOSE i \in DOMAIN items :
                        /\ items[i][1] = k
                        /\ \A j \in DOMAIN items : items[j][1] = k => j <= i
        IN  items[last][2]]

sql_to_ibis_dtypes == DictOf(sql_items)

\* OmniSciDBDataType.dtypes
dtypes == sql_to_ibis_dtypes

\* OmniSciDBDataType.ibis_dtypes = {v: k for k, v in dtypes.items()}
ibis_dtypes == DictOf([i \in DOMAIN sql_items |-> <<sql_items[i][2], sql_items[i][1]>>])

\* entry(nullable=n): a class is instantiated, an instance is copied with the
\* nullability asked for (DataType.__call__)
Instantiate(entry, nullable) ==
    [form |-> "instance", type |-> entry.type, params |-> entry.params, nullable |-> nullable]

\* type(dtype)
TypeOf(dtype) == Class(dtype.type)

\* DataType.name.lower() of the host types used here
LowerName(t) ==
    CASE t = "Int8" -> "int8" [] t = "Int16" -> "int16" [] t = "Int32" -> "int32"
      [] t = "Int64" -> "int64" [] t = "UInt8" -> "uint8" [] t = "Float16" -> "float16"
      [] t = "Float32" -> "float32" [] t = "Float64" -> "float64"
      [] t = "Boolean" -> "boolean" [] t = "Null" -> "null" [] t = "Decimal" -> "decimal"
      [] t = "String" -> "string" [] t = "Date" -> "date" [] t = "Time" -> "time"
      [] t = "Timestamp" -> "timestamp" [] t = "Point" -> "point"
      [] t = "LineString" -> "linestring" [] t = "Polygon" -> "polygon"
      [] t = "MultiPolygon" -> "multipolygon"

\* str(dtype)
DTypeStr(dtype) ==
    <<LowerName(dtype.type)>>
    \o (IF dtype.params = <<>> THEN <<>>
        ELSE <<"(", ToString(dtype.params[1]), ", ", ToString(dtype.params[2]), ")">>)
    \o (IF dtype.nullable THEN <<>> ELSE <<"[non-nullable]">>)

\* OmniSciDBDataType(typename, nullable)
OmniSciDBDataType(typename, nullable) ==
    IF typename \notin DOMAIN dtypes
    THEN RaiseWith("UnsupportedBackendType", <<typename>>)
    ELSE RetValue([typename |-> typename, nullable |-> nullable])

\* OmniSciDBDataType.__str__
__str__(self) ==
    IF self.nullable THEN <<"Nullable", "(", self.typename, ")">> ELSE <<self.typename>>

\* spec[a:-b] when b > 0 and spec[a:] when b = 0, counted in characters; the
\* cuts fall between tokens for every text __str__ writes
RECURSIVE CharSlice(_, _, _)
CharSlice(spec, a, b) ==
    IF spec = <<>> THEN <<>>
    ELSE IF a > 0 THEN CharSlice(Tail(spec), a - Len(Head(spec)), b)
    ELSE IF b > 0 THEN CharSlice(SubSeq(spec, 1, Len(spec) - 1), a, b - Len(spec[Len(spec)]))
    ELSE spec

\* OmniSciDBDataType.parse
parse(spec) ==
    IF spec # <<>> /\ Head(spec) = "Nullable"
    THEN OmniSciDBDataType(Flat(CharSlice(spec, 9, 1)), TRUE)
    ELSE OmniSciDBDataType(Flat(spec), TRUE)

\* OmniSciDBDataType.to_ibis
to_ibis(self) == Instantiate(dtypes[self.typename], self.nullable)

\* OmniSciDBDataType.from_ibis(dtype, nullable); nullable is <<>> (None) or <<b>>
from_ibis(dtype, nullable) ==
    LET dtype_ == TypeOf(dtype)
        n == IF nullable = <<>> THEN dtype.nullable ELSE nullable[1]
    IN  IF dtype_ \in DOMAIN ibis_dtypes
        THEN OmniSciDBDataType(ibis_dtypes[dtype_], n)
        ELSE IF dtype \in DOMAIN ibis_dtypes
        THEN OmniSciDBDataType(ibis_dtypes[dtype], n)
        ELSE RaiseWith("NotImplementedError", DTypeStr(dtype) \o <<" dtype not implemented">>)

(***************************************************************************)
(* Backend (ibis_omniscidb/__init__.py).  A method is an operator on the   *)
(* backend object self = [db_name] and its arguments that gives            *)
(* [ret, con, db_name]: the result, the calls made on the driver           *)
(* connection in order, and db_name afterwards.                            *)
(***************************************************************************)
MaxCols == 2

\* The most types in the input_type list of a UDF
MaxArgs == 2

\* One entry of con.get_table_details(table_name)
Column(name, type, nullable, precision, scale) ==
    [name |-> name, type |-> type, nullable |-> nullable,
     precision |-> precision, scale |-> scale]

\* The dict comprehension of get_schema: the columns are looked up in order,
\* and the first type that is not a key of sql_to_ibis_dtypes raises KeyError
SchemaCols(details) ==
    LET bad == {i \in DOMAIN details : details[i].type \notin DOMAIN sql_to_ibis_dtypes}
        first == CHOOSE i \in bad : \A j \in bad : i <= j
    IN  IF bad # {}
        THEN RaiseWith("KeyError", <<details[first].type>>)
        ELSE RetValue([i \in DOMAIN details |->
                          <<details[i].name,
                            Instantiate(sql_to_ibis_dtypes[details[i].type],
                                        details[i].nullable)>>])

\* Backend.get_schema(table_name, database); details is what the driver
\* answers to get_table_details
get_schema(self, table_name, details) ==
    [ret |-> SchemaCols(details),
     con |-> <<[call |-> "get_table_details", args |-> <<table_name>>]>>,
     db_name |-> self.db_name]

\* The dict literal sql_to_ibis_dtypes_str
sql_to_ibis_dtypes_str ==
    [k \in {"BIGINT"} |-> "int64"] @@ [k \in {"BOOLEAN", "BOOL"} |-> "Boolean"] @@
    [k \in {"CHAR", "STR", "TEXT", "VARCHAR"} |-> "string"] @@
    [k \in {"DATE"} |-> "date"] @@ [k \in {"DECIMAL"} |-> "decimal"] @@
    [k \in {"DOUBLE"} |-> "double"] @@ [k \in {"INT", "INTEGER"} |-> "int32"] @@
    [k \in {"FLOAT", "REAL"} |-> "float32"] @@ [k \in {"NUMERIC"} |-> "float64"] @@
    [k \in {"SMALLINT"} |-> "int16"] @@ [k \in {"TIME"} |-> "time"] @@
    [k \in {"TIMESTAMP"} |-> "timestamp"] @@ [k \in {"TINYINT"} |-> "int8"] @@
    [k \in {"POINT"} |-> "point"] @@ [k \in {"LINESTRING"} |-> "linestring"] @@
    [k \in {"POLYGON"} |-> "polygon"] @@ [k \in {"MULTIPOLYGON"} |-> "multipolygon"]

\* dt.dtype(text) of the host framework for the texts of the table: the type
\* of that name, nullable, a decimal without parameters being Decimal(9, 0)
dt_dtype(text) ==
    CASE text = "Boolean" -> Inst("Boolean", <<>>)
      [] text = "double" -> Inst("Float64", <<>>)
      [] text = "decimal" -> Inst("Decimal", <<9, 0>>)
      [] OTHER -> Inst(CHOOSE t \in {sql_items[i][2].type : i \in DOMAIN sql_items} :
                           LowerName(t) = text, <<>>)

\* Backend._get_schema_using_validator(query); result is what sql_validate
\* answers, with the type names _VALUES_TO_NAMES gives
_get_schema_using_validator(self, query, result) ==
    LET bad == {i \in DOMAIN result : result[i].type \notin DOMAIN sql_to_ibis_dtypes_str}
        first == CHOOSE i \in bad : \A j \in bad : i <= j
    IN  [ret |-> IF bad # {}
                 THEN RaiseWith("KeyError", <<result[first].type>>)
                 ELSE RetValue([i \in DOMAIN result |->
                                   <<result[i].name,
                                     dt_dtype(sql_to_ibis_dtypes_str[result[i].type])>>]),
         con |-> <<[call |-> "sql_validate", args |-> <<query>>]>>,
         db_name |-> self.db_name]

(***************************************************************************)
(* Statements (ddl.py) and the calls that execute them.                    *)
(***************************************************************************)
\* A call on the driver connection
DriverCall(name, args) == [call |-> name, args |-> args]

\* An exception object: its class, its args and the object's identity
RaiseObj(e, args, obj) == [kind |-> "raise", text |-> args, exc |-> e, obj |-> obj]

CTAS(table_name, select) == [op |-> "CTAS", name |-> table_name, select |-> <<select>>]
CreateView(name, select) == [op |-> "CreateView", name |-> name, select |-> <<select>>]
CreateTableWithSchema(table_name) ==
    [op |-> "CreateTableWithSchema", name |-> table_name, select |-> <<>>]

\* A query given as SQL text
Sql(text) == [op |-> "str", text |-> text]

\* The text of a statement built on a select, given what select.compile() gave
DDL_text(stmt, s) ==
    IF s.kind = "raise" THEN s
    ELSE RetStr(<<"CREATE", " ", IF stmt.op = "CTAS" THEN "TABLE" ELSE "VIEW", " ",
                  stmt.name, " ", "AS", " ", "(", NL>>
                \o s.text \o <<NL, ")">>)

\* DDL.compile(): a statement built on a select compiles that select
DDL_compile(stmt, supported) ==
    IF stmt.select = <<>>
    THEN RetStr(<<"CREATE", " ", "TABLE", " ", stmt.name, " ", "(", "a", " ", "INT", ")">>)
    ELSE DDL_text(stmt, compile_select(stmt.select[1], supported).ret)

\* Compiler.to_ast(expr): a union is handed to _make_union
to_ast(e, supported) ==
    IF e.op = "Union" THEN _make_union(e, supported).ret ELSE RetValue(e)

\* The backend object of the calls below: connected with the default
\* execution type (ipc = None, gpu_device = None)
Self == [db_name |-> db_name, ipc |-> <<>>, gpu_device |-> <<>>]

\* The driver connection pyomnisci.connect returns for a database
Connection(name) == [closed |-> FALSE, dbname |-> name]

\* The connection Backend.con refers to after the calls of a log: close closes
\* it, a connect that returned replaces it
RECURSIVE Driver(_, _)
Driver(c, calls) ==
    IF calls = <<>> THEN c
    ELSE Driver(CASE Head(calls).call = "close" -> [c EXCEPT !.closed = TRUE]
                  [] Head(calls).call = "connect" -> Connection(Head(calls).args[1])
                  [] OTHER -> c,
                Tail(calls))

\* Backend.set_database(name): [ret, con, db_name]; outcome is what
\* pyomnisci.connect does
set_database(self, name, outcome) ==
    IF self.db_name # name /\ name # <<>>
    THEN IF outcome.kind = "raise"
         THEN [ret |-> outcome,
               con |-> <<DriverCall("close", <<>>), DriverCall("connect raised", name)>>,
               db_name |-> self.db_name]
         ELSE [ret |-> RetNone,
               con |-> <<DriverCall("close", <<>>), DriverCall("connect", name)>>,
               db_name |-> name]
    ELSE [ret |-> RetNone, con |-> <<>>, db_name |-> self.db_name]

\* Faulty variant of _check_execution_type: only ipc = True passes with a GPU device
_check_execution_type_not_true(ipc, gpu_device) == gpu_device # <<>> /\ ipc # <<TRUE>>

\* Backend._check_execution_type(ipc, gpu_device): TRUE when it raises
_check_execution_type(ipc, gpu_device) == gpu_device # <<>> /\ ipc = <<FALSE>>

\* The except clause of raw_sql: e.args = (f'{e.args[0]}\n\n{query}',); raise e
reraise(e, query) ==
    IF e.text = <<>>
    THEN RaiseObj("IndexError", <<"tuple index out of range">>, "raised in raw_sql")
    ELSE RaiseObj(e.exc, <<Flat(<<e.text[1], NL, NL>> \o query)>>, e.obj)

\* raw_sql from the point where the query is compiled: q is the SQL text,
\* or what query.compile() raised
raw_sql_compiled(self, q, ipc, gpu_device, kwargs, outcome) ==
    LET ipc_ == IF ipc = <<>> /\ gpu_device = <<>> THEN self.ipc ELSE ipc
        gpu_ == IF ipc = <<>> /\ gpu_device = <<>> THEN self.gpu_device ELSE gpu_device
        calls == IF gpu_ = <<>>
                 THEN IF ipc_ = <<TRUE>>
                      THEN <<DriverCall("select_ipc", <<Flat(q.text)>>)>>
                      ELSE <<DriverCall("cursor", <<>>), DriverCall("execute", <<Flat(q.text)>>)>>
                 ELSE <<DriverCall("select_ipc_gpu", <<Flat(q.text), gpu_[1]>>)>>
    IN  IF q.kind = "raise"
        THEN [ret |-> q, con |-> <<>>]
        ELSE IF _check_execution_type(ipc_, gpu_)
        THEN [ret |-> RaiseWith("IbisInputError", <<"IPC parameter should be True or None">>),
              con |-> <<>>]
        ELSE IF outcome.kind = "raise"
        THEN [ret |-> reraise(outcome, q.text), con |-> calls]
        ELSE [ret |-> RetValue("cursor"), con |-> calls]

\* Backend.raw_sql(query, ipc, gpu_device, **kwargs); query is a statement
\* object or SQL text, outcome is what the driver's execute does
raw_sql(self, query, ipc, gpu_device, kwargs, supported, outcome) ==
    IF kwargs \ {"timecontext"} # {}
    THEN [ret |-> RaiseWith("IbisInputError", <<"extra parameters">>), con |-> <<>>]
    ELSE raw_sql_compiled(self,
                          IF query.op # "str" THEN DDL_compile(query, supported)
                          ELSE RetStr(query.text),
                          ipc, gpu_device, kwargs, outcome)

\* create_view after raw_sql: r is what self.raw_sql(statement) gave
create_view_executed(self, r) ==
    [ret |-> IF r.ret.kind = "raise" THEN r.ret ELSE RetNone,
     con |-> r.con, db_name |-> self.db_name]

\* Backend.create_view(name, expr, database)
create_view(self, name, e, supported, outcome) ==
    IF to_ast(e, supported).kind = "raise"
    THEN [ret |-> to_ast(e, supported), con |-> <<>>, db_name |-> self.db_name]
    ELSE create_view_executed(self,
             raw_sql(self, CreateView(name, e), <<>>, <<>>, {}, supported, outcome))

\* create_table after raw_sql: set is what set_database(database) did, r is
\* what self.raw_sql(statement) gave; the database is set back only when
\* raw_sql returned
create_table_executed(self, _database, set, r) ==
    IF r.ret.kind = "raise"
    THEN [ret |-> r.ret, con |-> set.con \o r.con, db_name |-> set.db_name]
    ELSE [ret |-> RetNone,
          con |-> set.con \o r.con \o set_database(self, _database, [kind |-> "ok"]).con,
          db_name |-> set_database(self, _database, [kind |-> "ok"]).db_name]

\* Backend.create_table(table_name, obj, schema, database); obj and schema
\* are <<>> (None) or <<value>>
create_table(self, table_name, obj, schema, database, supported, outcome) ==
    LET _database == self.db_name
        set == set_database(self, database, [kind |-> "ok"])
        self1 == [self EXCEPT !.db_name = set.db_name]
        statement == IF obj # <<>> THEN CTAS(table_name, obj[1])
                     ELSE CreateTableWithSchema(table_name)
    IN  IF obj # <<>> /\ obj[1].op = "DataFrame"
        THEN [ret |-> RaiseWith("NotImplementedError",
                                <<"Pandas Data Frame input not implemented.">>),
              con |-> set.con, db_name |-> set.db_name]
        ELSE IF obj # <<>> /\ to_ast(obj[1], supported).kind = "raise"
        THEN [ret |-> to_ast(obj[1], supported), con |-> set.con, db_name |-> set.db_name]
        ELSE IF obj = <<>> /\ schema = <<>>
        THEN [ret |-> RaiseWith("IbisError", <<"Must pass expr or schema">>),
              con |-> set.con, db_name |-> set.db_name]
        ELSE create_table_executed(self1, _database, set,
                 raw_sql(self1, statement, <<>>, <<>>, {}, supported, outcome))

\* Backend.connect(...): the backend object it returns, [db_name, ipc,
\* gpu_device], with the calls made on the driver; self is left as it was
connect(self, uri, user, password, database, session_id, ipc, gpu_device) ==
    IF _check_execution_type(ipc, gpu_device)
    THEN [ret |-> RaiseWith("IbisInputError", <<"IPC parameter should be True or None">>),
          con |-> <<>>, db_name |-> self.db_name]
    ELSE IF ~(session_id # <<>> /\ session_id[1] # "") /\ uri = <<>>
            /\ ~(user # <<>> /\ password # <<>> /\ database # <<>>)
    THEN [ret |-> RaiseWith("ValueError", <<"uri or all user, password and database must be provided">>),
          con |-> <<>>, db_name |-> self.db_name]
    ELSE [ret |-> RetValue([db_name |-> database, ipc |-> ipc, gpu_device |-> gpu_device]),
          con |-> <<DriverCall("connect", database)>>, db_name |-> self.db_name]

\* ddl.DropTable, ddl.DropView, ddl.DropDatabase
DropObject(kind, name_, must_exist) ==
    [op |-> kind, name |-> name_, select |-> <<>>, must_exist |-> must_exist]

\* DropObject.compile()
DropObject_compile(stmt) ==
    RetStr(<<"DROP", " ",
             CASE stmt.op = "DropTable" -> "TABLE" [] stmt.op = "DropView" -> "VIEW"
               [] stmt.op = "DropDatabase" -> "DATABASE",
             " ">>
           \o (IF stmt.must_exist THEN <<>> ELSE <<"IF EXISTS", " ">>)
           \o <<stmt.name>>)

\* self.raw_sql(statement) for a drop statement
raw_sql_drop(self, stmt, outcome) ==
    raw_sql_compiled(self, DropObject_compile(stmt), <<>>, <<>>, {}, outcome)

\* Backend.drop_table(table_name, database, force)
drop_table(self, table_name, database, force, outcome) ==
    create_table_executed(
        [self EXCEPT !.db_name = set_database(self, database, [kind |-> "ok"]).db_name],
        self.db_name,
        set_database(self, database, [kind |-> "ok"]),
        raw_sql_drop(self, DropObject("DropTable", table_name, ~force), outcome))

\* Backend.drop_view(name, database, force)
drop_view(self, name_, database, force, outcome) ==
    [ret |-> IF raw_sql_drop(self, DropObject("DropView", name_, ~force), outcome).ret.kind
                    = "raise"
             THEN raw_sql_drop(self, DropObject("DropView", name_, ~force), outcome).ret
             ELSE RetNone,
     con |-> raw_sql_drop(self, DropObject("DropView", name_, ~force), outcome).con,
     db_name |-> self.db_name]

\* Faulty variant of drop_table_or_view_dropped: a bare raise in the inner handler
drop_table_or_view_dropped_reraise(t, v) ==
    IF t.ret.kind # "raise" THEN t
    ELSE [ret |-> IF v.ret.kind = "raise" THEN v.ret ELSE RetNone,
          con |-> t.con \o v.con, db_name |-> v.db_name]

\* drop_table_or_view given what drop_table and, after it raised, drop_view did
drop_table_or_view_dropped(t, v) ==
    IF t.ret.kind # "raise" THEN t
    ELSE [ret |-> IF v.ret.kind = "raise" THEN t.ret ELSE RetNone,
          con |-> t.con \o v.con, db_name |-> v.db_name]

\* Backend.drop_table_or_view(name, database, force); outcome and
\* view_outcome are what the driver does with the two statements
drop_table_or_view(self, name_, database, force, outcome, view_outcome) ==
    drop_table_or_view_dropped(
        drop_table(self, name_, database, FALSE, outcome),
        drop_view([self EXCEPT !.db_name = drop_table(self, name_, database, FALSE, outcome).db_name],
                  name_, database, FALSE, view_outcome))

\* Backend.load_data(table_name, obj, database, method); outcome is what
\* con.load_table does
load_data(self, table_name, database, outcome) ==
    create_table_executed(
        [self EXCEPT !.db_name = set_database(self, database, [kind |-> "ok"]).db_name],
        self.db_name,
        set_database(self, database, [kind |-> "ok"]),
        [ret |-> IF outcome.kind = "raise" THEN outcome ELSE RetNone,
         con |-> <<DriverCall("load_table", <<table_name>>)>>])

\* list_tables after the database was set: set is what set_database(database)
\* did, or nothing when db_name is database already
list_tables_set(self, _database, set, outcome) ==
    IF outcome.kind = "raise"
    THEN [ret |-> outcome, con |-> set.con \o <<DriverCall("get_tables", <<>>)>>,
          db_name |-> set.db_name]
    ELSE [ret |-> RetValue(outcome.tables),
          con |-> set.con \o <<DriverCall("get_tables", <<>>)>>
                  \o (IF _database # <<>> /\ _database[1] # ""
                      THEN set_database([self EXCEPT !.db_name = set.db_name],
                                        _database, [kind |-> "ok"]).con
                      ELSE <<>>),
          db_name |-> IF _database # <<>> /\ _database[1] # ""
                      THEN set_database([self EXCEPT !.db_name = set.db_name],
                                        _database, [kind |-> "ok"]).db_name
                      ELSE set.db_name]

\* Backend.list_tables(like=None, database); outcome is what con.get_tables
\* does: it raises, or answers outcome.tables
list_tables(self, database, outcome) ==
    IF self.db_name # database
    THEN list_tables_set(self, self.db_name,
                         set_database(self, database, [kind |-> "ok"]), outcome)
    ELSE list_tables_set(self, <<>>,
                         [ret |-> RetNone, con |-> <<>>, db_name |-> self.db_name], outcome)

\* Faulty variant of drop_database_listed: force is not looked at
drop_database_listed_any_force(self, name_, force, listed, outcome) ==
    IF listed.ret.kind = "raise" THEN listed
    ELSE IF listed.ret.value # <<>>
    THEN [ret |-> RaiseWith("IntegrityError",
                            <<"Database ", name_, " must be empty before being dropped">>),
          con |-> listed.con, db_name |-> listed.db_name]
    ELSE [ret |-> IF outcome.kind = "raise"
                  THEN raw_sql_drop(self, DropObject("DropDatabase", name_, TRUE), outcome).ret
                  ELSE RetNone,
          con |-> listed.con
                  \o raw_sql_drop(self, DropObject("DropDatabase", name_, TRUE), outcome).con,
          db_name |-> listed.db_name]

\* drop_database given what list_tables(database=name) did
drop_database_listed(self, name_, force, listed, outcome) ==
    IF listed.ret.kind = "raise" THEN listed
    ELSE IF ~force /\ listed.ret.value # <<>>
    THEN [ret |-> RaiseWith("IntegrityError",
                            <<"Database ", name_, " must be empty before being dropped">>),
          con |-> listed.con, db_name |-> listed.db_name]
    ELSE [ret |-> IF outcome.kind = "raise"
                  THEN raw_sql_drop(self, DropObject("DropDatabase", name_, TRUE), outcome).ret
                  ELSE RetNone,
          con |-> listed.con
                  \o raw_sql_drop(self, DropObject("DropDatabase", name_, TRUE), outcome).con,
          db_name |-> listed.db_name]

\* Backend.drop_database(name, force): self.database(name) is an object, and
\* true, so the tables are listed whatever force is
drop_database(self, name_, force, tables_outcome, outcome) ==
    drop_database_listed(self, name_, force,
                         list_tables(self, <<name_>>, tables_outcome), outcome)

(***************************************************************************)
(* UDF bridge (ibis_omniscidb/udf.py).  A function object is                *)
(* [kind, name, nargs]; the calls made on the remote compiler are logged    *)
(* in order as [call, args].  An optional argument is <<>> (None) or <<v>>. *)
(***************************************************************************)
RemoteCall(name_, args) == [call |-> name_, args |-> args]

\* ibis_dtypes_to_str[ibis_type] = str(ibis_type), for the values of the table
ibis_dtypes_to_str ==
    [k \in {sql_items[i][2] : i \in DOMAIN sql_items} |->
        IF k.form = "class"
        THEN <<"<class 'ibis.expr.datatypes.", k.type, "'>">>
        ELSE DTypeStr(k)]

\* _create_function(name, nargs): types.CodeType is handed the thirteen
\* arguments the interpreter 3.7 takes; a later interpreter takes more and
\* raises TypeError
_create_function(name_, nargs, interpreter) ==
    IF interpreter # "3.7"
    THEN Raise("TypeError")
    ELSE RetValue([kind |-> "function", name |-> name_, nargs |-> nargs])

\* UserDefinedFunction(func, func_type, input_type, output_type, infer_literal);
\* host is what the constructor of the host framework's class does
UserDefinedFunction(func, func_type, input_type, output_type, infer_literal, host) ==
    IF host.kind = "raise"
    THEN host
    ELSE RetValue([kind |-> "UserDefinedFunction", func |-> func, func_type |-> func_type,
                   input_type |-> input_type, output_type |-> output_type,
                   infer_literal |-> infer_literal])

\* elementwise(input_type, output_type, infer_literal)(func) of the module
elementwise(input_type, output_type, infer_literal, func, host) ==
    UserDefinedFunction(func, "ElementWiseVectorizedUDF", input_type, output_type,
                        infer_literal, host)

\* udf_operation(input_type, output_type, infer_literal=infer_literal)(f);
\* udf_operation is the decorator factory, by its name
Decorate(udf_operation, input_type, output_type, infer_literal, func, host) ==
    CASE udf_operation = "elementwise" ->
             elementwise(input_type, output_type, infer_literal, func, host)

\* OmniSciDBUDF._udf with the name test left out: the decorator is returned
\* whether or not a name is given
_udf_name_ignored(udf_operation, input_type, output_type, name_, infer_literal, interpreter, host) ==
    [ret |-> RetValue([kind |-> "omnisci_wrapper", input_type |-> input_type,
                       output_type |-> output_type, infer_literal |-> infer_literal]),
     remote |-> <<>>]

\* OmniSciDBUDF._udf: gives [ret, remote], the result and the calls made on
\* remote_backend_compiler
_udf(udf_operation, input_type, output_type, name_, infer_literal, interpreter, host) ==
    IF name_ # <<>> /\ name_[1] # ""
    THEN LET f == _create_function(name_[1], Len(input_type), interpreter)
         IN  [ret |-> IF f.kind = "raise"
                      THEN f
                      ELSE Decorate(udf_operation, input_type, output_type, infer_literal,
                                    f.value, host),
              remote |-> <<>>]
    ELSE [ret |-> RetValue([kind |-> "omnisci_wrapper", input_type |-> input_type,
                            output_type |-> output_type, infer_literal |-> infer_literal]),
          remote |-> <<>>]

\* omnisci_wrapper(f), the decorator _udf returns when no name is given;
\* w holds the input_type, output_type and infer_literal it closes over,
\* compiled and registered are what the two calls on the remote compiler do
omnisci_wrapper(udf_operation, w, f, compiled, registered, host) ==
    LET looked == w.output_type \o w.input_type
        missing == {i \in DOMAIN looked : looked[i] \notin DOMAIN ibis_dtypes_to_str}
        first == CHOOSE i \in missing : \A j \in missing : i <= j
        signature == ibis_dtypes_to_str[w.output_type[1]] \o <<"(">>
                     \o Join(<<", ">>, [i \in DOMAIN w.input_type |->
                                           ibis_dtypes_to_str[w.input_type[i]]])
                     \o <<")">>
        func == IF f.kind = "UserDefinedFunction" THEN f.func ELSE f
    IN  IF w.output_type = <<>>
        THEN [ret |-> RaiseWith("KeyError", <<"None">>), remote |-> <<>>]
        ELSE IF missing # {}
        THEN [ret |-> RaiseWith("KeyError", DTypeStr(looked[first])), remote |-> <<>>]
        ELSE IF compiled.kind = "raise"
        THEN [ret |-> compiled,
              remote |-> <<RemoteCall("__call__", <<Flat(signature), func>>)>>]
        ELSE IF registered.kind = "raise"
        THEN [ret |-> registered,
              remote |-> <<RemoteCall("__call__", <<Flat(signature), func>>),
                           RemoteCall("register", <<>>)>>]
        ELSE [ret |-> Decorate(udf_operation, w.input_type, w.output_type, w.infer_literal,
                               func, host),
              remote |-> <<RemoteCall("__call__", <<Flat(signature), func>>),
                           RemoteCall("register", <<>>)>>]

\* OmniSciDBUDF.elementwise
OmniSciDBUDF_elementwise(input_type, output_type, name_, infer_literal, interpreter, host) ==
    _udf("elementwise", input_type, output_type, name_, infer_literal, interpreter, host)

\* OmniSciDBUDF.reduction and OmniSciDBUDF.analytic
reduction(input_type, output_type, name_) ==
    RaiseWith("NotImplementedError", <<"UDF Reduction is not implemented yet.">>)

analytic(input_type, output_type, name_) ==
    RaiseWith("NotImplementedError", <<"UDF Analytic is not implemented yet.">>)

(***************************************************************************)
(* Inputs of the type and schema operations.                               *)
(***************************************************************************)
\* Type names: the keys of the table and two names the table does not have
TypeNames == DOMAIN dtypes \cup {"GEOMETRY", "TEXT"}

\* Host types: every table entry with either nullability, and host types
\* the table does not hold
HostTypes ==
    {Instantiate(sql_items[i][2], n) : i \in DOMAIN sql_items, n \in BOOLEAN}
    \cup {Instantiate(Inst(t, <<>>), n) : t \in {"Float16", "UInt8"}, n \in BOOLEAN}
    \cup {Instantiate(Inst("Decimal", <<10, 2>>), n) : n \in BOOLEAN}

Nullables == {<<>>, <<TRUE>>, <<FALSE>>}

ColumnTypes == {"INT", "BOOL", "DECIMAL", "NUMERIC", "GEOMETRY"}

\* The precision and scale the driver reports for a column of the type
PrecisionScale(type) ==
    IF type \in {"DECIMAL", "NUMERIC"} THEN {<<0, 0>>, <<18, 9>>, <<10, 2>>} ELSE {<<0, 0>>}

ColName(i) == "c" \o ToString(i)

ColumnsAt(i) ==
    {Column(ColName(i), t, n, ps[1], ps[2]) :
        t \in ColumnTypes, n \in BOOLEAN, ps \in {<<0, 0>>, <<18, 9>>, <<10, 2>>}}

\* What get_table_details may answer: one to MaxCols columns of distinct names
TableDetails ==
    UNION {{d \in [1..m -> UNION {ColumnsAt(i) : i \in 1..m}] :
                \A i \in 1..m : /\ d[i].name = ColName(i)
                                /\ <<d[i].precision, d[i].scale>> \in PrecisionScale(d[i].type)} :
           m \in 1..MaxCols}

\* Types handed to the UDF bridge: two the table holds and one it does not
UdfTypes == {Inst("Int64", <<>>), Inst("Float64", <<>>), Inst("UInt8", <<>>)}

UdfInputTypes == UNION {[1..n -> UdfTypes] : n \in 0..MaxArgs}

UdfOutputTypes == {<<>>} \cup {<<t>> : t \in UdfTypes}

\* The name argument: None, the empty string, a name
UdfNames == {<<>>, <<"">>, <<"my_udf">>}

\* The interpreters the package declares support for: 3.7 and later
Interpreters == {"3.7", "3.8"}

\* What the host framework's constructor and the remote compiler do: they
\* return, or raise an exception object
HostOutcomes == {[kind |-> "ok"], RaiseObj("IbisTypeError", <<>>, "raised by the host")}

RemoteOutcomes == {[kind |-> "ok"], RaiseObj("Error", <<"rbc">>, "raised by the remote compiler")}

\* The functions a decorator is applied to: a plain function and a UDF of
\* the host framework that wraps one
DecoratedFunctions ==
    {[kind |-> "function", name |-> "f", nargs |-> 1],
     [kind |-> "UserDefinedFunction", func |-> [kind |-> "function", name |-> "f", nargs |-> 1],
      func_type |-> "ElementWiseVectorizedUDF", input_type |-> <<Inst("Int64", <<>>)>>,
      output_type |-> <<Inst("Int64", <<>>)>>, infer_literal |-> FALSE]}

Databases == {"db1", "db2"}

\* Expressions handed to create_table / create_view: a table, a join that
\* compiles, joins that do not, and a union
SelectExprs ==
    {Table("t1"),
     JoinNode("InnerJoin", Table("t1"), Table("t2"), <<EqPred>>),
     JoinNode("LeftAntiJoin", Table("t1"), Table("t2"), <<EqPred>>),
     JoinNode("InnerJoin", Table("t1"),
              JoinNode("InnerJoin", Table("t2"), Table("t3"), <<EqPred>>), <<EqPred>>),
     UnionNode(Table("t1"), Table("t2"))}

\* Queries handed to raw_sql: SQL text and statement objects
Queries ==
    {Sql(<<"SELECT", " ", "1">>), CreateTableWithSchema("new_table")}
    \cup {CTAS("new_table", e) : e \in SelectExprs \ {UnionNode(Table("t1"), Table("t2"))}}

\* What the driver's execute does: it returns, or raises an exception
\* object with no, one or two args
DriverOutcomes ==
    {[kind |-> "ok"]}
    \cup {RaiseObj("Error", a, "raised by the driver") :
             a \in {<<>>, <<"syntax error">>, <<"syntax error", "code 1">>}}

\* The variables only the compiler operations use
selectVars == <<limit, group_by, having, expr, non_equijoin_supported, join_tables,
                join_types, join_predicates, translated, rewritten, rows>>

(***************************************************************************)
(* The backend's state machine: a connected backend, one call at a time.   *)
(***************************************************************************)
InitBackend ==
    /\ pc = "idle"
    /\ call = ""
    /\ limit = <<>>
    /\ group_by = <<>>
    /\ having = <<>>
    /\ expr = NoExpr
    /\ non_equijoin_supported = TRUE
    /\ join_tables = <<>>
    /\ join_types = <<>>
    /\ join_predicates = <<>>
    /\ translated = <<>>
    /\ rewritten = NoExpr
    /\ rows = <<>>
    /\ ret = RetNone
    /\ arg = NoArg
    /\ con = <<>>
    /\ remote_backend_compiler = <<>>
    /\ db_name \in {<<>>} \cup {<<d>> : d \in Databases}
    /\ connection \in {Connection(d) : d \in Databases}
    /\ db_name # <<>> => connection = Connection(db_name[1])
    /\ session = <<>>
    /\ heap = <<>>
    /\ threads = <<>>

CallDataType ==
    /\ pc = "idle"
    /\ \E typename \in TypeNames, nullable \in BOOLEAN :
          /\ arg' = [op |-> "OmniSciDBDataType", typename |-> typename, nullable |-> nullable]
          /\ ret' = OmniSciDBDataType(typename, nullable)
    /\ pc' = "done"
    /\ call' = "OmniSciDBDataType"
    /\ UNCHANGED <<selectVars, con, db_name, connection, processVars, remote_backend_compiler>>

\* OmniSciDBDataType.from_ibis(OmniSciDBDataType(typename, nullable).to_ibis())
CallRoundTrip ==
    /\ pc = "idle"
    /\ \E typename \in DOMAIN dtypes, nullable \in BOOLEAN :
          LET t == OmniSciDBDataType(typename, nullable)
          IN  /\ arg' = [op |-> "round_trip", typename |-> typename, nullable |-> nullable]
              /\ ret' = from_ibis(to_ibis(t.value), <<>>)
    /\ pc' = "done"
    /\ call' = "round_trip"
    /\ UNCHANGED <<selectVars, con, db_name, connection, processVars, remote_backend_compiler>>

\* OmniSciDBDataType.parse(str(OmniSciDBDataType(typename, nullable)))
CallParseStr ==
    /\ pc = "idle"
    /\ \E typename \in DOMAIN dtypes, nullable \in BOOLEAN :
          /\ arg' = [op |-> "parse_str", typename |-> typename, nullable |-> nullable]
          /\ ret' = parse(__str__(OmniSciDBDataType(typename, nullable).value))
    /\ pc' = "done"
    /\ call' = "parse_str"
    /\ UNCHANGED <<selectVars, con, db_name, connection, processVars, remote_backend_compiler>>

CallFromIbis ==
    /\ pc = "idle"
    /\ \E dtype \in HostTypes, nullable \in Nullables :
          /\ arg' = [op |-> "from_ibis", dtype |-> dtype, nullable |-> nullable]
          /\ ret' = from_ibis(dtype, nullable)
    /\ pc' = "done"
    /\ call' = "from_ibis"
    /\ UNCHANGED <<selectVars, con, db_name, connection, processVars, remote_backend_compiler>>

CallGetSchema ==
    /\ pc = "idle"
    /\ \E details \in TableDetails :
          LET r == get_schema([db_name |-> db_name], "t", details)
          IN  /\ arg' = [op |-> "get_schema", table_name |-> "t", details |-> details]
              /\ ret' = r.ret
              /\ con' = r.con
              /\ db_name' = r.db_name
    /\ pc' = "done"
    /\ call' = "get_schema"
    /\ UNCHANGED <<selectVars, processVars, remote_backend_compiler>>
    /\ connection' = Driver(connection, con')

CallGetSchemaUsingValidator ==
    /\ pc = "idle"
    /\ \E details \in TableDetails :
          LET r == _get_schema_using_validator([db_name |-> db_name], "SELECT * FROM t", details)
          IN  /\ arg' = [op |-> "_get_schema_using_validator", details |-> details]
              /\ ret' = r.ret
              /\ con' = r.con
              /\ db_name' = r.db_name
    /\ pc' = "done"
    /\ call' = "_get_schema_using_validator"
    /\ UNCHANGED <<selectVars, processVars, remote_backend_compiler>>
    /\ connection' = Driver(connection, con')

CallRawSql ==
    /\ pc = "idle"
    /\ \E query \in Queries, ipc \in Nullables, gpu_device \in {<<>>, <<0>>},
          kwargs \in {{}, {"timecontext"}, {"results"}}, outcome \in DriverOutcomes :
          LET r == raw_sql(Self, query, ipc, gpu_device, kwargs, non_equijoin_supported, outcome)
          IN  /\ arg' = [op |-> "raw_sql", query |-> query, ipc |-> ipc,
                         gpu_device |-> gpu_device, kwargs |-> kwargs, outcome |-> outcome]
              /\ ret' = r.ret
              /\ con' = r.con
    /\ pc' = "done"
    /\ call' = "raw_sql"
    /\ UNCHANGED <<selectVars, db_name, processVars, remote_backend_compiler>>
    /\ connection' = Driver(connection, con')

CallCreateView ==
    /\ pc = "idle"
    /\ \E e \in SelectExprs, outcome \in DriverOutcomes :
          LET r == create_view(Self, "v", e, non_equijoin_supported, outcome)
          IN  /\ arg' = [op |-> "create_view", name |-> "v", expr |-> e, outcome |-> outcome]
              /\ ret' = r.ret
              /\ con' = r.con
              /\ db_name' = r.db_name
    /\ pc' = "done"
    /\ call' = "create_view"
    /\ UNCHANGED <<selectVars, processVars, remote_backend_compiler>>
    /\ connection' = Driver(connection, con')

CallCreateTable ==
    /\ pc = "idle"
    /\ \E obj \in {<<>>} \cup {<<e>> : e \in SelectExprs \cup {[op |-> "DataFrame"]}},
          schema \in {<<>>, <<"schema">>},
          database \in {<<>>} \cup {<<d>> : d \in Databases},
          outcome \in DriverOutcomes :
          LET r == create_table(Self, "new_table", obj, schema, database,
                                non_equijoin_supported, outcome)
          IN  /\ arg' = [op |-> "create_table", table_name |-> "new_table", obj |-> obj,
                         schema |-> schema, database |-> database, outcome |-> outcome]
              /\ ret' = r.ret
              /\ con' = r.con
              /\ db_name' = r.db_name
    /\ pc' = "done"
    /\ call' = "create_table"
    /\ UNCHANGED <<selectVars, processVars, remote_backend_compiler>>
    /\ connection' = Driver(connection, con')

\* What pyomnisci.connect does when set_database reconnects
ConnectOutcomes ==
    {[kind |-> "ok"], RaiseObj("Error", <<"connection refused">>, "raised by connect")}

\* What con.get_tables does
TablesOutcomes ==
    {[kind |-> "ok", tables |-> t] : t \in {<<>>, <<"t1">>}}
    \cup {RaiseObj("Error", <<"session expired">>, "raised by get_tables")}

\* What the driver does with the DROP VIEW of drop_table_or_view
ViewOutcomes ==
    {[kind |-> "ok"], RaiseObj("Error", <<"view does not exist">>, "raised for the view")}

OptionalDatabases == {<<>>} \cup {<<d>> : d \in Databases}

CallConnect ==
    /\ pc = "idle"
    /\ \E uri \in {<<>>, <<"omnisci://host:6274/db1">>}, user \in {<<>>, <<"admin">>},
          password \in {<<>>, <<"secret">>}, database \in OptionalDatabases,
          session_id \in {<<>>, <<"">>, <<"s1">>}, ipc \in Nullables,
          gpu_device \in {<<>>, <<0>>} :
          LET r == connect(Self, uri, user, password, database, session_id, ipc, gpu_device)
          IN  /\ arg' = [op |-> "connect", uri |-> uri, user |-> user, password |-> password,
                         database |-> database, session_id |-> session_id, ipc |-> ipc,
                         gpu_device |-> gpu_device]
              /\ ret' = r.ret
              /\ con' = r.con
    /\ pc' = "done"
    /\ call' = "connect"
    /\ UNCHANGED <<selectVars, db_name, connection, processVars, remote_backend_compiler>>

CallSetDatabase ==
    /\ pc = "idle"
    /\ \E name_ \in OptionalDatabases, outcome \in ConnectOutcomes :
          LET r == set_database(Self, name_, outcome)
          IN  /\ arg' = [op |-> "set_database", name |-> name_, outcome |-> outcome]
              /\ ret' = r.ret
              /\ con' = r.con
              /\ db_name' = r.db_name
    /\ pc' = "done"
    /\ call' = "set_database"
    /\ UNCHANGED <<selectVars, processVars, remote_backend_compiler>>
    /\ connection' = Driver(connection, con')

CallDropDatabase ==
    /\ pc = "idle"
    /\ \E name_ \in Databases, force \in BOOLEAN, tables_outcome \in TablesOutcomes,
          outcome \in DriverOutcomes :
          LET r == drop_database(Self, name_, force, tables_outcome, outcome)
          IN  /\ arg' = [op |-> "drop_database", name |-> name_, force |-> force,
                         tables_outcome |-> tables_outcome, outcome |-> outcome]
              /\ ret' = r.ret
              /\ con' = r.con
              /\ db_name' = r.db_name
    /\ pc' = "done"
    /\ call' = "drop_database"
    /\ UNCHANGED <<selectVars, processVars, remote_backend_compiler>>
    /\ connection' = Driver(connection, con')

CallDropTable ==
    /\ pc = "idle"
    /\ \E database \in OptionalDatabases, force \in BOOLEAN, outcome \in DriverOutcomes :
          LET r == drop_table(Self, "t1", database, force, outcome)
          IN  /\ arg' = [op |-> "drop_table", table_name |-> "t1", database |-> database,
                         force |-> force, outcome |-> outcome]
              /\ ret' = r.ret
              /\ con' = r.con
              /\ db_name' = r.db_name
    /\ pc' = "done"
    /\ call' = "drop_table"
    /\ UNCHANGED <<selectVars, processVars, remote_backend_compiler>>
    /\ connection' = Driver(connection, con')

CallDropTableOrView ==
    /\ pc = "idle"
    /\ \E database \in OptionalDatabases, force \in BOOLEAN, outcome \in DriverOutcomes,
          view_outcome \in ViewOutcomes :
          LET r == drop_table_or_view(Self, "v1", database, force, outcome, view_outcome)
          IN  /\ arg' = [op |-> "drop_table_or_view", name |-> "v1", database |-> database,
                         force |-> force, outcome |-> outcome,
                         view_outcome |-> view_outcome]
              /\ ret' = r.ret
              /\ con' = r.con
              /\ db_name' = r.db_name
    /\ pc' = "done"
    /\ call' = "drop_table_or_view"
    /\ UNCHANGED <<selectVars, processVars, remote_backend_compiler>>
    /\ connection' = Driver(connection, con')

CallLoadData ==
    /\ pc = "idle"
    /\ \E database \in OptionalDatabases, outcome \in DriverOutcomes :
          LET r == load_data(Self, "t1", database, outcome)
          IN  /\ arg' = [op |-> "load_data", table_name |-> "t1", database |-> database,
                         outcome |-> outcome]
              /\ ret' = r.ret
              /\ con' = r.con
              /\ db_name' = r.db_name
    /\ pc' = "done"
    /\ call' = "load_data"
    /\ UNCHANGED <<selectVars, processVars, remote_backend_compiler>>
    /\ connection' = Driver(connection, con')

CallListTables ==
    /\ pc = "idle"
    /\ \E database \in OptionalDatabases, outcome \in TablesOutcomes :
          LET r == list_tables(Self, database, outcome)
          IN  /\ arg' = [op |-> "list_tables", database |-> database, outcome |-> outcome]
              /\ ret' = r.ret
              /\ con' = r.con
              /\ db_name' = r.db_name
    /\ pc' = "done"
    /\ call' = "list_tables"
    /\ UNCHANGED <<selectVars, processVars, remote_backend_compiler>>
    /\ connection' = Driver(connection, con')

CallElementwise ==
    /\ pc = "idle"
    /\ \E input_type \in UdfInputTypes, output_type \in UdfOutputTypes, name_ \in UdfNames,
          infer_literal \in BOOLEAN, interpreter \in Interpreters, host \in HostOutcomes :
          LET r == OmniSciDBUDF_elementwise(input_type, output_type, name_, infer_literal,
                                            interpreter, host)
          IN  /\ arg' = [op |-> "elementwise", input_type |-> input_type,
                         output_type |-> output_type, name |-> name_,
                         infer_literal |-> infer_literal]
              /\ ret' = r.ret
              /\ remote_backend_compiler' = r.remote
    /\ pc' = "done"
    /\ call' = "elementwise"
    /\ UNCHANGED <<selectVars, con, db_name, connection, processVars>>

\* The decorator elementwise returned is applied to a function
CallOmnisciWrapper ==
    /\ pc = "done"
    /\ call = "elementwise"
    /\ ret.kind = "value"
    /\ ret.value.kind = "omnisci_wrapper"
    /\ \E f \in DecoratedFunctions, compiled \in RemoteOutcomes, registered \in RemoteOutcomes,
          host \in HostOutcomes :
          LET r == omnisci_wrapper("elementwise", ret.value, f, compiled, registered, host)
          IN  /\ ret' = r.ret
              /\ remote_backend_compiler' = r.remote
    /\ call' = "omnisci_wrapper"
    /\ UNCHANGED <<pc, arg, selectVars, con, db_name, connection, processVars>>

CallUdfStub ==
    /\ pc = "idle"
    /\ \E kind \in {"reduction", "analytic"}, input_type \in UdfInputTypes,
          output_type \in UdfOutputTypes, name_ \in UdfNames :
          /\ arg' = [op |-> kind, input_type |-> input_type, output_type |-> output_type,
                     name |-> name_]
          /\ ret' = IF kind = "reduction" THEN reduction(input_type, output_type, name_)
                    ELSE analytic(input_type, output_type, name_)
          /\ call' = kind
    /\ pc' = "done"
    /\ UNCHANGED <<selectVars, con, db_name, connection, processVars, remote_backend_compiler>>

NextBackend ==
    \/ CallDataType
    \/ CallRoundTrip
    \/ CallParseStr
    \/ CallFromIbis
    \/ CallGetSchema
    \/ CallGetSchemaUsingValidator
    \/ CallRawSql
    \/ CallCreateView
    \/ CallCreateTable
    \/ CallConnect
    \/ CallSetDatabase
    \/ CallDropDatabase
    \/ CallDropTable
    \/ CallDropTableOrView
    \/ CallLoadData
    \/ CallListTables
    \/ CallElementwise
    \/ CallOmnisciWrapper
    \/ CallUdfStub
    \/ Return

SpecBackend == InitBackend /\ [][NextBackend]_vars

(***************************************************************************)
(* C1: format_limit produces no clause when no limit is set; otherwise     *)
(* exactly LIMIT <n>, followed by ", <offset>" if and only if the offset   *)
(* is present and non-zero.                                                *)
(***************************************************************************)
C1_LimitClause ==
    (pc = "done" /\ call = "format_limit") =>
        /\ (limit = <<>>) => ret = RetNone
        /\ (limit # <<>>) =>
              LET n == limit[1].n
                  o == limit[1].offset
              IN  /\ ret.kind = "str"
                  /\ (o # <<>> /\ o[1] # 0) =>
                        Flat(ret.text) = "LIMIT " \o ToString(n) \o ", " \o ToString(o[1])
                  /\ (o = <<>> \/ o[1] = 0) =>
                        Flat(ret.text) = "LIMIT " \o ToString(n)
        /\ (limit = <<[n |-> 10, offset |-> <<0>>]>>) => Flat(ret.text) = "LIMIT 10"
        /\ (limit = <<[n |-> 10, offset |-> <<>>]>>) => Flat(ret.text) = "LIMIT 10"
        /\ (limit = <<[n |-> 10, offset |-> <<5>>]>>) => Flat(ret.text) = "LIMIT 10, 5"

C1_Witness ==
    /\ pc = "done" /\ call = "format_limit"
    /\ limit = <<[n |-> 10, offset |-> <<0>>]>>
    /\ Flat(ret.text) = "LIMIT 10"

(***************************************************************************)
(* C2: format_group_by produces no clause without group-by expressions;    *)
(* otherwise one line GROUP BY with the comma-joined output names of the   *)
(* group-by expressions in order, and a second line HAVING with the        *)
(* translated predicates joined by AND if and only if having-predicates    *)
(* exist.                                                                  *)
(***************************************************************************)
RECURSIVE C2_Names(_)
C2_Names(gb) ==
    IF Len(gb) = 1 THEN gb[1].name
    ELSE gb[1].name \o ", " \o C2_Names(Tail(gb))

RECURSIVE C2_Preds(_)
C2_Preds(hv) ==
    IF Len(hv) = 1 THEN Flat(Format(hv[1]))
    ELSE Flat(Format(hv[1])) \o " AND " \o C2_Preds(Tail(hv))

C2_GroupByClause ==
    (pc = "done" /\ call = "format_group_by") =>
        /\ (group_by = <<>>) => ret = RetNone
        /\ (group_by # <<>>) =>
              /\ ret.kind = "str"
              /\ (having = <<>>) =>
                    Flat(ret.text) = "GROUP BY " \o C2_Names(group_by)
              /\ (having # <<>>) =>
                    Flat(ret.text) = "GROUP BY " \o C2_Names(group_by)
                                     \o "\n" \o "HAVING " \o C2_Preds(having)

C2_Witness ==
    /\ pc = "done" /\ call = "format_group_by"
    /\ Len(group_by) = 2 /\ group_by[1].op = "Divide" /\ group_by[2].op = "Column"
    /\ Len(having) = 2 /\ having[1] # having[2]
    /\ ret.kind = "str"

(***************************************************************************)
(* Reading a rendered table set and a join tree, for the claims below.     *)
(***************************************************************************)
C_SpaceToks == {NL} \cup {Spaces(k) : k \in 1..8}
C_IsSpace(t) == t \in C_SpaceToks
C_Strip(text) == LET Keep(t) == ~C_IsSpace(t) IN SelectSeq(text, Keep)
C_LabelToks == {"JOIN", "LEFT JOIN", "RIGHT JOIN", "ANTI JOIN"}
C_TableToks == {TableName(i) : i \in 1..(MaxTables + 2)}

\* The positions of the tokens of text that are in S, ascending
C_Positions(text, S) ==
    LET In(i) == text[i] \in S IN SelectSeq([i \in 1..Len(text) |-> i], In)

\* The ON clauses of the text, each from its ON up to the next join's line
C_OnClauses(text) ==
    LET on == C_Positions(text, {"ON"})
        lab == C_Positions(text, C_LabelToks)
    IN  [i \in 1..Len(on) |->
            SubSeq(text, on[i], IF i < Len(lab) THEN lab[i + 1] - 1 ELSE Len(text))]

\* The predicate tokens of an ON clause
C_PredTokens(clause) ==
    LET Keep(t) == ~C_IsSpace(t) /\ t \notin {"ON", "AND", "(", ")", "TRUE"}
    IN  SelectSeq(clause, Keep)

RECURSIVE C_IsLeftDeep(_)
C_IsLeftDeep(e) ==
    e.op = "Table" \/ (IsJoin(e) /\ e.right.op = "Table" /\ C_IsLeftDeep(e.left))

\* The tables of a join tree, left to right
RECURSIVE C_Tables(_)
C_Tables(e) == IF e.op = "Table" THEN <<e.name>> ELSE C_Tables(e.left) \o C_Tables(e.right)

\* The joins of a join tree, innermost (leftmost) first
RECURSIVE C_Joins(_)
C_Joins(e) ==
    IF e.op = "Table" THEN <<>>
    ELSE C_Joins(e.left) \o C_Joins(e.right) \o <<[kind |-> e.op, preds |-> e.predicates]>>

C_Kinds(e) == {C_Joins(e)[i].kind : i \in 1..Len(C_Joins(e))}
C_AllPreds(e) == UNION {{C_Joins(e)[i].preds[j] : j \in 1..Len(C_Joins(e)[i].preds)} :
                           i \in 1..Len(C_Joins(e))}
C_Supported == {"InnerJoin", "LeftJoin", "LeftSemiJoin", "CrossJoin"}

C_Label(kind) ==
    CASE kind = "InnerJoin" -> "JOIN"
      [] kind = "LeftJoin" -> "LEFT JOIN"
      [] kind = "LeftSemiJoin" -> "JOIN"
      [] kind = "CrossJoin" -> "JOIN"
      [] OTHER -> "unsupported"

C_Rendered(p) == C_Strip(Format(p))

(***************************************************************************)
(* C3: for a left-deep join tree of N tables the text of get_result holds  *)
(* the first table and then exactly N-1 join clauses in left-to-right      *)
(* table order, each with an ON clause of at least one predicate or the    *)
(* literal ON TRUE; no table, join type or predicate list is dropped.      *)
(***************************************************************************)
C3_JoinFlattening ==
    (pc = "done" /\ call = "get_result" /\ C_IsLeftDeep(expr)) =>
        LET text == ret.text
            tabs == C_Tables(expr)
            joins == C_Joins(expr)
            N == Len(tabs)
            tb == C_Positions(text, C_TableToks)
            lab == C_Positions(text, C_LabelToks)
            on == C_Positions(text, {"ON"})
            clause == C_OnClauses(text)
        IN  /\ (C_Kinds(expr) \subseteq C_Supported /\ non_equijoin_supported)
                  => ret.kind = "str"
            /\ (ret.kind = "str") =>
                  /\ text[1] = tabs[1]
                  /\ [i \in 1..Len(tb) |-> text[tb[i]]] = tabs
                  /\ Len(lab) = N - 1
                  /\ Len(on) = N - 1
                  /\ \A i \in 1..(N - 1) :
                        /\ lab[i] < tb[i + 1] /\ tb[i + 1] < on[i]
                        /\ (i < N - 1) => on[i] < lab[i + 1]
                        /\ text[lab[i]] = C_Label(joins[i].kind)
                        /\ C_PredTokens(clause[i]) =
                              ConcatAll([j \in 1..Len(joins[i].preds) |->
                                            C_Rendered(joins[i].preds[j])])
                        /\ (joins[i].preds = <<>>) =>
                              C_Strip(clause[i]) = <<"ON", "TRUE">>
                        /\ (joins[i].preds # <<>>) =>
                              /\ Len(C_Strip(clause[i])) > 1
                              /\ C_Strip(clause[i])[2] # "TRUE"

C3_Witness ==
    /\ pc = "done" /\ call = "get_result" /\ ret.kind = "str"
    /\ C_IsLeftDeep(expr) /\ Len(C_Tables(expr)) = 3
    /\ C_Joins(expr)[1].preds = <<>> /\ Len(C_Joins(expr)[2].preds) = 2
    /\ C_Joins(expr)[1].kind = "LeftJoin" /\ C_Joins(expr)[2].kind = "InnerJoin"

(***************************************************************************)
(* C4: a join clause rendered for the predicate list P has the condition   *)
(* ON TRUE when P is empty, ON <pred> without parentheses when P has one   *)
(* predicate, and ON followed by every predicate in parentheses, in order, *)
(* joined by AND, when P has more than one.                                *)
(***************************************************************************)
C4_Condition(P) ==
    IF P = <<>> THEN <<"ON", "TRUE">>
    ELSE IF Len(P) = 1 THEN <<"ON">> \o C_Rendered(P[1])
    ELSE <<"ON">> \o Join(<<"AND">>, [j \in 1..Len(P) |->
                                         <<"(">> \o C_Rendered(P[j]) \o <<")">>])

C4_OnCondition ==
    (pc = "done" /\ call = "get_result" /\ ret.kind = "str") =>
        /\ Len(C_Positions(ret.text, {"ON"})) = Len(join_predicates)
        /\ LET clause == C_OnClauses(ret.text)
           IN  \A i \in 1..Len(join_predicates) :
                  C_Strip(clause[i]) = C4_Condition(join_predicates[i])

C4_Witness ==
    /\ pc = "done" /\ call = "get_result" /\ ret.kind = "str"
    /\ Len(join_predicates) = 2
    /\ Len(join_predicates[1]) = 1 /\ Len(join_predicates[2]) = 2
    /\ Flat(C_OnClauses(ret.text)[1]) = "ON a = b\n  "
    /\ Flat(C_OnClauses(ret.text)[2]) = "ON (a > b) AND\n       (a = b)"

(***************************************************************************)
(* C5: the join label is JOIN for an inner join, LEFT JOIN for a           *)
(* left-outer join, JOIN for a left-semi join and JOIN for a cross join;   *)
(* a join tree holding a join of any other kind never yields SQL text.     *)
(***************************************************************************)
C5_JoinLabels ==
    (pc = "done" /\ call = "get_result") =>
        /\ (ret.kind = "str") =>
              /\ C_Kinds(expr) \subseteq C_Supported
              /\ LET joins == C_Joins(expr)
                     lab == C_Positions(ret.text, C_LabelToks)
                 IN  /\ join_types = [i \in 1..Len(joins) |-> C_Label(joins[i].kind)]
                     /\ [i \in 1..Len(lab) |-> ret.text[lab[i]]] = join_types
        /\ ~(C_Kinds(expr) \subseteq C_Supported) => ret.kind = "raise"

C5_Witness ==
    /\ pc = "done" /\ call = "get_result" /\ ret.kind = "str"
    /\ Len(C_Joins(expr)) = 2
    /\ C_Joins(expr)[1].kind = "LeftSemiJoin" /\ C_Joins(expr)[2].kind = "LeftJoin"
    /\ join_types = <<"JOIN", "LEFT JOIN">>

C5_WitnessUnsupported ==
    /\ pc = "done" /\ call = "get_result"
    /\ expr.op = "RightJoin" /\ ret = Raise("KeyError")

(***************************************************************************)
(* C6: with non-equi-joins disabled, a join whose predicate list holds a   *)
(* predicate that is not an equality raises the TranslationError and no    *)
(* SQL text is produced; when every predicate is an equality, or           *)
(* non-equi-joins are enabled, the validation raises nothing.              *)
(***************************************************************************)
C_NonEquality(preds) == \E j \in 1..Len(preds) : preds[j].op # "Equals"

C6_EquiJoinValidation ==
    (pc = "done" /\ call = "get_result" /\ IsJoin(expr)) =>
        /\ (~non_equijoin_supported /\ C_NonEquality(expr.predicates)
               /\ ~(IsJoin(expr.left) /\ IsJoin(expr.right)))
              => ret = Raise("TranslationError")
        /\ (~non_equijoin_supported /\ (\E p \in C_AllPreds(expr) : p.op # "Equals"))
              => (ret.kind = "raise" /\ ret.text = <<>>)
        /\ (~non_equijoin_supported /\ C_IsLeftDeep(expr) /\ C_Kinds(expr) \subseteq C_Supported
               /\ (\E p \in C_AllPreds(expr) : p.op # "Equals"))
              => ret = Raise("TranslationError")
        /\ (non_equijoin_supported \/ (\A p \in C_AllPreds(expr) : p.op = "Equals"))
              => ret.exc # "TranslationError"
        /\ (C_IsLeftDeep(expr) /\ C_Kinds(expr) \subseteq C_Supported
               /\ (non_equijoin_supported \/ (\A p \in C_AllPreds(expr) : p.op = "Equals")))
              => ret.kind = "str"

C6_Witness ==
    /\ pc = "done" /\ call = "get_result"
    /\ ~non_equijoin_supported
    /\ expr.op = "InnerJoin" /\ expr.predicates = <<EqPred, GtPred>>
    /\ ret = Raise("TranslationError")

C6_WitnessEquality ==
    /\ pc = "done" /\ call = "get_result"
    /\ ~non_equijoin_supported
    /\ expr.op = "InnerJoin" /\ expr.predicates = <<EqPred>>
    /\ ret.kind = "str"

(***************************************************************************)
(* C7: compiling an expression whose statement is a UNION raises the       *)
(* UnsupportedOperationError, returns no SQL text, and nothing has been    *)
(* translated when it is raised.                                           *)
(***************************************************************************)
C7_UnionRejected ==
    (pc = "done" /\ call = "compile" /\ expr.op = "Union") =>
        /\ ret = Raise("UnsupportedOperationError")
        /\ ret.text = <<>>
        /\ translated = <<>>

C7_Witness ==
    /\ pc = "done" /\ call = "compile"
    /\ expr.op = "Union" /\ IsJoin(expr.left)
    /\ ret.kind = "raise"

(***************************************************************************)
(* C8: the floor-division rule maps a // b to the floor operator applied   *)
(* to one division node with left operand a and right operand b, so that   *)
(* the compiled text is floor(a / b).                                      *)
(***************************************************************************)
C8_FloorDivide ==
    /\ (pc = "done" /\ call = "rewrite" /\ expr.op = "FloorDivide") =>
          /\ ret.kind = "expr"
          /\ ret.tree.op = "Floor"
          /\ Len(ret.tree.args) = 1
          /\ ret.tree.args[1].op = "Divide"
          /\ Len(ret.tree.args[1].args) = 2
          /\ ret.tree.args[1].args[1] = expr.args[1]
          /\ ret.tree.args[1].args[2] = expr.args[2]
    /\ (pc = "done" /\ call = "translate" /\ expr.op = "FloorDivide") =>
          /\ rewritten.op = "Floor"
          /\ rewritten.args[1].op = "Divide"
          /\ (expr.args[1].op = "Column" /\ expr.args[2].op = "Column") =>
                Flat(ret.text) = "floor(" \o expr.args[1].name \o " / "
                                 \o expr.args[2].name \o ")"

C8_Witness ==
    /\ pc = "done" /\ call = "rewrite"
    /\ expr.op = "FloorDivide"
    /\ expr.args[1].op = "FloorDivide" /\ expr.args[2] = Col("b")
    /\ ret.tree.op = "Floor"

C8_WitnessText ==
    /\ pc = "done" /\ call = "translate"
    /\ expr = Node("FloorDivide", <<Col("a"), Col("b")>>)
    /\ Flat(ret.text) = "floor(a / b)"

(***************************************************************************)
(* C9: the rewrite pass terminates and is idempotent: rewriting the        *)
(* rewritten tree again leaves it unchanged, and what a rule puts above    *)
(* the operands of its input holds no operator kind that has a rule.       *)
(***************************************************************************)
RECURSIVE C9_NewOps(_, _)
C9_NewOps(t, operands) ==
    IF t \in operands THEN {}
    ELSE {t.op} \cup UNION {C9_NewOps(t.args[i], operands) : i \in 1..Len(t.args)}

C9_RewriteIdempotent ==
    /\ (pc = "done" /\ call = "translate") =>
          /\ ret.kind = "str"
          /\ OpsOf(rewritten) \cap _rewrites = {}
          /\ RewritePass(rewritten, RecursionLimit) = rewritten
    /\ (pc = "done" /\ call = "rewrite") =>
          C9_NewOps(ret.tree, {expr.args[i] : i \in 1..Len(expr.args)}) \cap _rewrites = {}

C9_Witness ==
    /\ pc = "done" /\ call = "translate"
    /\ expr.op = "NotAll" /\ expr.args[1].op = "Greater"
    /\ expr.args[1].args[1].op = "FloorDivide"
    /\ rewritten # expr
    /\ ret.kind = "str"

(***************************************************************************)
(* C10: over every finite boolean column the rewritten All is false iff    *)
(* some row is false, the rewritten Any is true iff some row is true, and  *)
(* the rewritten NotAll and NotAny are the logical negations of those two. *)
(***************************************************************************)
C10_SomeFalse == \E i \in 1..Len(rows) : ~rows[i]
C10_SomeTrue == \E i \in 1..Len(rows) : rows[i]

C10_BooleanReductions ==
    (pc = "done" /\ call = "execute") =>
        /\ ret.kind = "value"
        /\ (expr.op = "All") => (ret.value = "FALSE" <=> C10_SomeFalse)
        /\ (expr.op = "Any") => (ret.value = "TRUE" <=> C10_SomeTrue)
        /\ (expr.op = "NotAll") =>
              /\ ret.value = "TRUE" <=> C10_SomeFalse
              /\ ret.value = Not3(Eval(heavydb_rewrite_all(Node("All", expr.args)), rows))
        /\ (expr.op = "NotAny") =>
              /\ ret.value = "FALSE" <=> C10_SomeTrue
              /\ ret.value = Not3(Eval(heavydb_rewrite_any(Node("Any", expr.args)), rows))

C10_Witness ==
    /\ pc = "done" /\ call = "execute"
    /\ expr.op = "Any" /\ rows = <<FALSE, TRUE, FALSE>>
    /\ ret.value = "TRUE"

C10_WitnessNotAll ==
    /\ pc = "done" /\ call = "execute"
    /\ expr.op = "NotAll" /\ rows = <<TRUE, FALSE>>
    /\ ret.value = "TRUE"

(***************************************************************************)
(* C11: type round trip.  For every name of sql_to_ibis_dtypes,            *)
(* OmniSciDBDataType(name).to_ibis() converted back by from_ibis gives a   *)
(* dialect type of the same name.                                          *)
(***************************************************************************)
C11_TypeRoundTrip ==
    (pc = "done" /\ call = "round_trip" /\ arg.nullable)
        => (ret.kind = "value" /\ ret.value.typename = arg.typename)

(***************************************************************************)
(* C12: a type lookup outside the mapping's domain never defaults.  The    *)
(* constructor given an unrecognized name, from_ibis given a host type     *)
(* with no dialect mapping, and get_schema meeting an unrecognized column  *)
(* type each raise the unsupported-type error (UnsupportedBackendType),    *)
(* and the error names the unrecognized token.                             *)
(***************************************************************************)
C12_Unmapped(dtype) == TypeOf(dtype) \notin DOMAIN ibis_dtypes /\ dtype \notin DOMAIN ibis_dtypes

C12_UnknownColumns(details) ==
    {i \in DOMAIN details : details[i].type \notin DOMAIN sql_to_ibis_dtypes}

C12_Names(result, token) == \E i \in DOMAIN result.text : result.text[i] = token

C12_UnsupportedTypeError ==
    pc = "done" =>
        /\ (call = "OmniSciDBDataType" /\ arg.typename \notin DOMAIN dtypes)
               => /\ ret.kind = "raise" /\ ret.exc = "UnsupportedBackendType"
                  /\ C12_Names(ret, arg.typename)
        /\ (call = "from_ibis" /\ C12_Unmapped(arg.dtype))
               => /\ ret.kind = "raise" /\ ret.exc = "UnsupportedBackendType"
                  /\ C12_Names(ret, LowerName(arg.dtype.type))
        /\ (call = "get_schema" /\ C12_UnknownColumns(arg.details) # {})
               => /\ ret.kind = "raise" /\ ret.exc = "UnsupportedBackendType"
                  /\ \E i \in C12_UnknownColumns(arg.details) :
                        C12_Names(ret, arg.details[i].type)

(***************************************************************************)
(* C13: a DECIMAL or NUMERIC column of the schema get_schema returns has   *)
(* precision 18 and scale 9 when the table details supply none, and the    *)
(* precision and scale of the table details otherwise.                     *)
(***************************************************************************)
C13_Expected(col) ==
    IF <<col.precision, col.scale>> = <<0, 0>> THEN <<18, 9>> ELSE <<col.precision, col.scale>>

C13_DecimalPrecision ==
    (pc = "done" /\ call = "get_schema" /\ ret.kind = "value") =>
        \A i \in DOMAIN arg.details :
            arg.details[i].type \in {"DECIMAL", "NUMERIC"}
                => ret.value[i][2].params = C13_Expected(arg.details[i])

(***************************************************************************)
(* C14: when compiling the expression or statement fails (raw_sql given a  *)
(* statement object, create_table from an expression, create_view), the    *)
(* compile error is what the call raises and no call was made on the       *)
(* driver connection before it: no execute, no close, no reconnect.        *)
(***************************************************************************)
C14_Fails(e) == compile(e, non_equijoin_supported).ret.kind = "raise"

C14_CompileFails ==
    \/ call = "raw_sql" /\ arg.query.op # "str" /\ arg.query.select # <<>>
          /\ arg.kwargs \subseteq {"timecontext"} /\ C14_Fails(arg.query.select[1])
    \/ call = "create_view" /\ C14_Fails(arg.expr)
    \/ call = "create_table" /\ arg.obj # <<>> /\ arg.obj[1].op # "DataFrame"
          /\ C14_Fails(arg.obj[1])

C14_Compiled ==
    compile(IF call = "raw_sql" THEN arg.query.select[1]
            ELSE IF call = "create_view" THEN arg.expr ELSE arg.obj[1],
            non_equijoin_supported).ret

C14_ErrorBeforeDriverCall ==
    (pc = "done" /\ C14_CompileFails) => (ret = C14_Compiled /\ con = <<>>)

(***************************************************************************)
(* C15: when the driver's execute raises inside raw_sql, raw_sql raises    *)
(* that same exception object, of the same class, its message being the    *)
(* driver's message followed by the failing SQL text; this holds for every *)
(* driver exception, one without args included.                            *)
(***************************************************************************)
C15_DriverCalled ==
    \E i \in DOMAIN con : con[i].call \in {"execute", "select_ipc", "select_ipc_gpu"}

C15_Sql == con[Len(con)].args[1]

C15_DriverErrorPassedThrough ==
    (pc = "done" /\ call = "raw_sql" /\ C15_DriverCalled /\ arg.outcome.kind = "raise") =>
        /\ ret.kind = "raise"
        /\ ret.exc = arg.outcome.exc
        /\ ret.obj = arg.outcome.obj
        /\ arg.outcome.text # <<>> =>
               ret.text = <<arg.outcome.text[1] \o NL \o NL \o C15_Sql>>
        /\ arg.outcome.text = <<>> => ret.text = <<NL \o NL \o C15_Sql>>

(***************************************************************************)
(* C18: the translator appends an alias only when the aliasing policy      *)
(* demands it.  With always_alias false, name() called with force false    *)
(* returns the translated expression as it is, without an AS clause.       *)
(***************************************************************************)
C18_HasAs(text) == \E i \in DOMAIN text : text[i] = "AS"

C18_AliasOnlyOnDemand ==
    (pc = "done" /\ call = "name" /\ ~always_alias /\ ~arg.force)
        => (ret.text = arg.translated /\ ~C18_HasAs(ret.text))

(***************************************************************************)
(* C19: the clauses of a compiled statement come in the order select       *)
(* list, table set, WHERE, GROUP BY, HAVING, LIMIT, each present exactly   *)
(* when the statement has it; the table t filtered by a > 5, grouped by b  *)
(* with a count and limited to 10 rows compiles to a select list with the  *)
(* count, FROM t, WHERE a > 5, GROUP BY b, LIMIT 10, one clause per line.  *)
(***************************************************************************)
\* The positions of a keyword in the text
C19_At(text, kw) == {i \in DOMAIN text : text[i] = kw}

C19_Keywords == <<"SELECT", "FROM", "WHERE", "GROUP BY", "HAVING", "LIMIT">>

C19_Has(kw) ==
    CASE kw = "WHERE" -> arg.where # <<>>
      [] kw = "GROUP BY" -> group_by # <<>>
      [] kw = "HAVING" -> group_by # <<>> /\ having # <<>>
      [] kw = "LIMIT" -> limit # <<>>
      [] OTHER -> TRUE

C19_Example ==
    /\ arg.select_set = <<Col("b"), CountStar>>
    /\ expr = Table("t")
    /\ arg.where = <<Node("Greater", <<Col("a"), Lit("5")>>)>>
    /\ group_by = <<Col("b")>>
    /\ having = <<>>
    /\ limit = <<[n |-> 10, offset |-> <<>>]>>

C19_ClauseOrder ==
    (pc = "done" /\ call = "Select.compile" /\ ret.kind = "str") =>
        /\ \A k \in DOMAIN C19_Keywords :
              Cardinality(C19_At(ret.text, C19_Keywords[k]))
                  = IF C19_Has(C19_Keywords[k]) THEN 1 ELSE 0
        /\ \A k, l \in DOMAIN C19_Keywords :
              k < l => \A i \in C19_At(ret.text, C19_Keywords[k]),
                          j \in C19_At(ret.text, C19_Keywords[l]) :
                          /\ i < j
                          /\ \E m \in i..j : ret.text[m] = NL
        /\ ret.text[1] = "SELECT"
        /\ C19_Example =>
              Flat(ret.text)
                  = "SELECT b, count(*) AS \"count\"\nFROM t\nWHERE a > 5\nGROUP BY b\nLIMIT 10"

C19_Witness ==
    /\ pc = "done" /\ call = "Select.compile" /\ ret.kind = "str"
    /\ C19_Example

C19_WitnessAllClauses ==
    /\ pc = "done" /\ call = "Select.compile" /\ ret.kind = "str"
    /\ \A k \in DOMAIN C19_Keywords : C19_At(ret.text, C19_Keywords[k]) # {}

(***************************************************************************)
(* C20: the table-set text is newline-separated.  Every join's             *)
(* <TYPE> <table> starts a line of its own, indented by one unit, and      *)
(* every ON clause, ON TRUE as well as ON <predicates>, starts the line    *)
(* after it, indented by two units.                                        *)
(***************************************************************************)
C20_StartsLine(text, i, units) ==
    /\ i > 2
    /\ text[i - 1] = Spaces(units * self_indent)
    /\ text[i - 2] = NL

C20_NewlineSeparated ==
    (pc = "done" /\ call = "get_result" /\ ret.kind = "str") =>
        \A i \in DOMAIN ret.text :
            /\ ret.text[i] \in C_LabelToks => C20_StartsLine(ret.text, i, 1)
            /\ ret.text[i] = "ON" => C20_StartsLine(ret.text, i, 2)

(***************************************************************************)
(* Compile calls in one process.  Each thread runs Select.compile step by  *)
(* step: the formatter is constructed, get_result walks the join tree      *)
(* into the formatter's lists, get_result writes the table set from them,  *)
(* and the other clauses are formatted and joined.  The steps of two       *)
(* threads interleave freely.  heap holds the formatter object each        *)
(* call constructed; session records the calls that returned.              *)
(***************************************************************************)
MaxCalls == 3

Threads == {"T1", "T2"}

\* Faulty variant of self_of: one formatter object serves every call
self_of_one_object(t) == "T1"

\* self in get_result: the formatter object the call of thread t constructed
self_of(t) == t

NoSelect == Select(<<>>, NoExpr, <<>>, <<>>, <<>>, <<>>)

IdleThread == [pc |-> "idle", sel |-> NoSelect, from |-> RetNone, ret |-> RetNone]

\* The statements compiled: a bare table, a grouped and limited join, and a
\* chain of two joins, one of them without predicates
ProcessStatements ==
    {Select(<<>>, Table("t1"), <<>>, <<>>, <<>>, <<>>),
     Select(<<Col("b"), CountStar>>,
            JoinNode("InnerJoin", Table("t1"), Table("t2"), <<EqPred>>),
            <<Node("Greater", <<Col("a"), Lit("5")>>)>>,
            <<Col("b")>>, <<Node("Greater", <<Node("Sum", <<Col("a")>>), Col("b")>>)>>,
            <<[n |-> 10, offset |-> <<>>]>>),
     Select(<<>>,
            JoinNode("LeftJoin",
                     JoinNode("CrossJoin", Table("t2"), Table("t3"), <<>>),
                     Table("t1"), <<EqPred, GtPred>>),
            <<>>, <<>>, <<>>, <<[n |-> 10, offset |-> <<5>>]>>)}

InFlight == {t \in Threads : threads[t].pc # "idle"}

InitProcess ==
    /\ pc = "idle"
    /\ call = ""
    /\ limit = <<>>
    /\ group_by = <<>>
    /\ having = <<>>
    /\ expr = NoExpr
    /\ non_equijoin_supported = TRUE
    /\ join_tables = <<>>
    /\ join_types = <<>>
    /\ join_predicates = <<>>
    /\ translated = <<>>
    /\ rewritten = NoExpr
    /\ rows = <<>>
    /\ ret = RetNone
    /\ arg = NoArg
    /\ con = <<>>
    /\ remote_backend_compiler = <<>>
    /\ db_name = <<>>
    /\ connection = <<>>
    /\ session = <<>>
    /\ heap = [t \in Threads |-> NewFormatter]
    /\ threads = [t \in Threads |-> IdleThread]

processFrame == <<pc, call, limit, group_by, having, expr, non_equijoin_supported,
                  translated, rewritten, rows, ret, backendVars>>

\* Select.compile is called: format_table_set constructs the formatter
BeginCompile(t) ==
    /\ threads[t].pc = "idle"
    /\ Len(session) + Cardinality(InFlight) < MaxCalls
    /\ \E sel \in ProcessStatements :
          threads' = [threads EXCEPT ![t] = [IdleThread EXCEPT !.pc = "walk", !.sel = sel]]
    /\ heap' = [heap EXCEPT ![self_of(t)] = NewFormatter]
    /\ UNCHANGED <<processFrame, session, join_tables, join_types, join_predicates>>

\* get_result, up to the walk
WalkJoinTree(t) ==
    /\ threads[t].pc = "walk"
    /\ heap' = [heap EXCEPT ![self_of(t)] =
                   walk(heap[self_of(t)], threads[t].sel.table_set, non_equijoin_supported)]
    /\ threads' = [threads EXCEPT ![t].pc = "write"]
    /\ UNCHANGED <<processFrame, session, join_tables, join_types, join_predicates>>

\* get_result, from the walk to the return of the text
WriteTableSet(t) ==
    /\ threads[t].pc = "write"
    /\ threads' = [threads EXCEPT ![t].pc = "clauses",
                                  ![t].from = written(heap[self_of(t)]).ret]
    /\ UNCHANGED <<processFrame, session, heap, join_tables, join_types, join_predicates>>

\* The other fragments, and the join of all of them
FormatClauses(t) ==
    /\ threads[t].pc = "clauses"
    /\ threads' = [threads EXCEPT
                      ![t].pc = "done",
                      ![t].ret = JoinFragments(<<format_select_set(threads[t].sel),
                                                 from_fragment(threads[t].from),
                                                 format_where(threads[t].sel),
                                                 format_group_by(threads[t].sel.group_by,
                                                                 threads[t].sel.having),
                                                 format_limit(threads[t].sel.limit)>>)]
    /\ UNCHANGED <<processFrame, session, heap, join_tables, join_types, join_predicates>>

\* The call returns; its formatter is dropped with the lists as they are
ReturnCompile(t) ==
    /\ threads[t].pc = "done"
    /\ session' = Append(session, [input |-> threads[t].sel, output |-> threads[t].ret])
    /\ join_tables' = heap[self_of(t)].join_tables
    /\ join_types' = heap[self_of(t)].join_types
    /\ join_predicates' = heap[self_of(t)].join_predicates
    /\ threads' = [threads EXCEPT ![t] = IdleThread]
    /\ UNCHANGED <<processFrame, heap>>

NextProcess ==
    \E t \in Threads :
        \/ BeginCompile(t)
        \/ WalkJoinTree(t)
        \/ WriteTableSet(t)
        \/ FormatClauses(t)
        \/ ReturnCompile(t)

SpecProcess == InitProcess /\ [][NextProcess]_vars

C24_WalkInvariant ==
    (call = "get_result" /\ pc = "done" /\ ret.kind # "raise") =>
        /\ Len(join_tables) = Len(join_types) + 1
        /\ Len(join_tables) = Len(join_predicates) + 1
        /\ ~IsJoin(expr) =>
              /\ join_tables = <<_format_table(expr)>>
              /\ join_types = <<>>
              /\ join_predicates = <<>>

\* A chain of joins over MaxTables tables was walked
C24_Witness ==
    /\ call = "get_result" /\ pc = "done" /\ ret.kind = "str"
    /\ IsJoin(expr)
    /\ Len(join_tables) = MaxTables
    /\ Len(join_types) = MaxTables - 1

(***************************************************************************)
(* C30: every having-predicate of a select plan appears in the output of   *)
(* format_group_by: none is dropped, also when the plan has                *)
(* having-predicates and no group-by expressions.                          *)
(***************************************************************************)
C30_Occurs(part, text) ==
    \E i \in 0..(Len(text) - Len(part)) : SubSeq(text, i + 1, i + Len(part)) = part

C30_Kept == \A i \in DOMAIN having : C30_Occurs(<<"HAVING">>, ret.text)
                                     /\ C30_Occurs(Format(having[i]), ret.text)

C30_HavingNeverDropped ==
    (pc = "done" /\ call = "format_group_by") => C30_Kept

(***************************************************************************)
(* C28: the text form of a dialect type round-trips: for every recognized  *)
(* type name and both nullable values, OmniSciDBDataType.parse(str(t)) has *)
(* the typename and the nullable flag of t.                                *)
(***************************************************************************)
C28_TextRoundTrip ==
    (call = "parse_str" /\ pc = "done") =>
        /\ ret.kind = "value"
        /\ ret.value.typename = arg.typename
        /\ ret.value.nullable = arg.nullable

(***************************************************************************)
(* C29: the two dialect-name tables agree: every type name present in      *)
(* both sql_to_ibis_dtypes and sql_to_ibis_dtypes_str maps to the same     *)
(* host type in both, so a column's type is the same whether its schema    *)
(* is resolved by get_schema or by _get_schema_using_validator.            *)
(***************************************************************************)
C29_HostType(dtype) == <<dtype.type, dtype.params>>

C29_TablesAgree ==
    (call = "_get_schema_using_validator" /\ pc = "done" /\ ret.kind = "value") =>
        \A i \in DOMAIN arg.details :
            arg.details[i].type \in DOMAIN sql_to_ibis_dtypes =>
                C29_HostType(ret.value[i][2])
                    = C29_HostType(Instantiate(sql_to_ibis_dtypes[arg.details[i].type],
                                               arg.details[i].nullable))

(***************************************************************************)
(* C22: drop_database(name, force=False) on a database that holds at       *)
(* least one table raises IntegrityError and issues no DROP DATABASE       *)
(* statement; when force is True, or the database holds no tables,         *)
(* exactly one DROP DATABASE statement is issued.  (The tables are those   *)
(* get_tables answers.)                                                    *)
(***************************************************************************)
C22_Drops ==
    Cardinality({i \in DOMAIN con :
                    /\ con[i].call = "execute"
                    /\ con[i].args = <<"DROP DATABASE " \o arg.name>>})

C22_WitnessForce ==
    /\ call = "drop_database" /\ pc = "done"
    /\ arg.force /\ arg.tables_outcome.kind = "ok" /\ arg.tables_outcome.tables # <<>>
    /\ ret = RetNone /\ C22_Drops = 1

(***************************************************************************)
(* C23: whenever gpu_device is not None and ipc is False, connect and      *)
(* raw_sql raise IbisInputError before touching the driver (connect opens  *)
(* no connection, raw_sql executes no statement); for every other          *)
(* combination of ipc in {None, False, True} and gpu_device the check      *)
(* raises nothing (C23_AlwaysIbisInputError).  As amended: in raw_sql the  *)
(* error is IbisInputError unless compiling a statement object given as    *)
(* the query has already raised, and then it is that error; the driver is  *)
(* not touched in either case (C23_ExecutionTypeChecked).                  *)
(***************************************************************************)
C23_Rejected == arg.gpu_device # <<>> /\ arg.ipc = <<FALSE>>

C23_CheckError == RaiseWith("IbisInputError", <<"IPC parameter should be True or None">>)

C23_CompileError ==
    IF arg.query.op = "str" THEN RetNone
    ELSE DDL_compile(arg.query, non_equijoin_supported)

C23_AlwaysIbisInputError ==
    (pc = "done" /\ call \in {"connect", "raw_sql"}) =>
        IF C23_Rejected
        THEN ret.kind = "raise" /\ ret.exc = "IbisInputError" /\ con = <<>>
        ELSE ret # C23_CheckError

C23_ExecutionTypeChecked ==
    /\ (pc = "done" /\ call = "connect") =>
          IF C23_Rejected THEN ret = C23_CheckError /\ con = <<>>
          ELSE ret # C23_CheckError
    /\ (pc = "done" /\ call = "raw_sql") =>
          IF C23_Rejected
          THEN /\ con = <<>>
               /\ ret.kind = "raise"
               /\ \/ ret.exc = "IbisInputError"
                  \/ C23_CompileError.kind = "raise" /\ ret = C23_CompileError
          ELSE ret # C23_CheckError

\* raw_sql on SQL text with a GPU device and ipc False: rejected before any execute
C23_Witness ==
    /\ pc = "done" /\ call = "raw_sql"
    /\ C23_Rejected /\ arg.query.op = "str" /\ arg.kwargs = {}
    /\ ret = C23_CheckError /\ con = <<>>

\* connect with a GPU device and ipc None: a connection is opened
C23_WitnessConnect ==
    /\ pc = "done" /\ call = "connect"
    /\ arg.gpu_device # <<>> /\ arg.ipc = <<>>
    /\ ret.kind = "value" /\ con # <<>>

(***************************************************************************)
(* C25: create_table, drop_table, load_data and list_tables leave the      *)
(* backend's current database unchanged: after any of them, db_name and    *)
(* the connection's database are what they were before the call, whether   *)
(* the call returned or raised, and also when db_name was None before.     *)
(***************************************************************************)
C25_Calls == {"create_table", "drop_table", "load_data", "list_tables"}

C25_DatabaseUnchanged ==
    [][(pc = "idle" /\ call' \in C25_Calls) =>
          /\ db_name' = db_name
          /\ connection'.dbname = connection.dbname]_vars

(***************************************************************************)
(* C26: after any sequence of set_database calls, whether each returned    *)
(* or raised, the backend holds an open connection whose database is       *)
(* db_name; a failed reconnect never leaves the backend with a closed      *)
(* connection or with db_name different from the connection's database.    *)
(***************************************************************************)
C26_OpenConnection ==
    (call = "set_database" /\ pc = "done") =>
        /\ ~connection.closed
        /\ db_name # <<>> => connection.dbname = db_name[1]

(***************************************************************************)
(* C27: drop_table_or_view attempts the view drop only after the table     *)
(* drop has raised; it raises nothing when either drop succeeds, and when  *)
(* both fail the exception it raises is the one from the table drop, not   *)
(* the one from the view drop.                                             *)
(***************************************************************************)
C27_Executes(text) ==
    {i \in DOMAIN con : con[i].call = "execute" /\ con[i].args = <<text>>}

C27_TableDrops == C27_Executes("DROP TABLE " \o arg.name)
C27_ViewDrops == C27_Executes("DROP VIEW " \o arg.name)

C27_WitnessView ==
    /\ call = "drop_table_or_view" /\ pc = "done"
    /\ arg.outcome.kind = "raise" /\ arg.view_outcome.kind = "ok"
    /\ ret = RetNone /\ C27_ViewDrops # {}
(***************************************************************************)
(* C21: when the UDF bridge's elementwise is called with a name, no call   *)
(* is made on the remote compilation service, neither compiling a          *)
(* signature nor register, at any point of the call, for any input and     *)
(* output types: what is returned is the UDF itself, built on a function   *)
(* of that name with one argument per input type, and not the decorator    *)
(* that compiles what it is applied to.                                    *)
(***************************************************************************)
C21_Named ==
    /\ pc = "done"
    /\ arg.op = "elementwise"
    /\ arg.name # <<>>
    /\ arg.name[1] # ""

C21_NoRemoteCall ==
    C21_Named =>
        /\ remote_backend_compiler = <<>>
        /\ call = "elementwise"
        /\ ret.kind = "value" =>
              /\ ret.value.kind = "UserDefinedFunction"
              /\ ret.value.func = [kind |-> "function", name |-> arg.name[1],
                                   nargs |-> Len(arg.input_type)]
              /\ ret.value.input_type = arg.input_type
              /\ ret.value.output_type = arg.output_type

\* A UDF was returned for a name and two input types
C21_Witness ==
    /\ C21_Named
    /\ ret.kind = "value"
    /\ Len(arg.input_type) = 2
    /\ arg.output_type # <<>>

\* Without a name the decorator compiled and registered the function
C21_WitnessCompiled ==
    /\ pc = "done"
    /\ call = "omnisci_wrapper"
    /\ Len(remote_backend_compiler) = 2
    /\ ret.kind = "value"

====
